---- MODULE Spec2Model ----
(***************************************************************************)
(* State-machine model of iotdb_mcp_server: the configuration loader       *)
(* (config.py), the module-level start-up of server.py that builds the     *)
(* session pool and registers the tools of the configured SQL dialect, and *)
(* the five tool handlers with the row formatting they share.              *)
(*                                                                         *)
(* A Python str is a sequence of one-character strings, so that strip(),   *)
(* upper(), startswith(), "+" and join() are computed and not assumed.     *)
(* A Python value handed over by the database driver or by argparse is a   *)
(* tagged record: PyStr(text) or PyInt(number).                            *)
(***************************************************************************)
EXTENDS Integers, Sequences, FiniteSets, TLC

VARIABLES
    argv,        \* command-line flags: flag -> <<>> (not given) or <<text>>
    environ,     \* process environment: name -> <<>> (unset) or <<text>>
    phase,       \* "init" (before import), "serving", "fatal" (argparse exit)
    config,      \* the Config dataclass: field -> value
    pools,       \* the session pools constructed at module level
    tools,       \* the names registered with @mcp.tool()
    checkedOut,  \* ids of the sessions handed out by the pool and not closed
    last         \* the tool invocation whose response is being returned

vars == <<argv, environ, phase, config, pools, tools, checkedOut, last>>

----------------------------------------------------------------------------
(* Bounds of the model *)

\* longest result cursor the database returns
MaxRows == 2
\* sessions the table pool hands out before the model stops invoking tools
MaxTableSessions == 3

----------------------------------------------------------------------------
(* Python values and text *)

PyStr(s) == [t |-> "str", s |-> s, n |-> 0]
PyInt(n) == [t |-> "int", s |-> <<>>, n |-> n]
PyNone == [t |-> "none", s |-> <<>>, n |-> 0]

\* A character is a string: the character itself for printable ASCII and for
\* tab, line feed, carriage return and form feed; "U" and the hexadecimal
\* number of its code point (U017F, U000B) for every other one, and U0060
\* for the grave accent.

DigitChars == <<"0", "1", "2", "3", "4", "5", "6", "7", "8", "9">>

\* the characters str.isspace() holds for: those str.strip() removes
Whitespace ==
    {"\t", "\n", "U000B", "\f", "\r", "U001C", "U001D", "U001E", "U001F",
     " ", "U0085", "U00A0", "U1680", "U2000", "U2001", "U2002", "U2003",
     "U2004", "U2005", "U2006", "U2007", "U2008", "U2009", "U200A", "U2028",
     "U2029", "U202F", "U205F", "U3000"}

\* the characters int() skips around a number
IntWhitespace == Whitespace \ {"U001C", "U001D", "U001E", "U001F"}

\* str.upper() of every character it changes (Unicode 14.0.0)
UpperTable ==
    [a |-> <<"A">>, b |-> <<"B">>, c |-> <<"C">>, d |-> <<"D">>,
     e |-> <<"E">>, f |-> <<"F">>, g |-> <<"G">>, h |-> <<"H">>,
     i |-> <<"I">>, j |-> <<"J">>, k |-> <<"K">>, l |-> <<"L">>,
     m |-> <<"M">>, n |-> <<"N">>, o |-> <<"O">>, p |-> <<"P">>,
     q |-> <<"Q">>, r |-> <<"R">>, s |-> <<"S">>, t |-> <<"T">>,
     u |-> <<"U">>, v |-> <<"V">>, w |-> <<"W">>, x |-> <<"X">>,
     y |-> <<"Y">>, z |-> <<"Z">>, U00B5 |-> <<"U039C">>,
     U00DF |-> <<"S", "S">>, U00E0 |-> <<"U00C0">>, U00E1 |-> <<"U00C1">>,
     U00E2 |-> <<"U00C2">>, U00E3 |-> <<"U00C3">>, U00E4 |-> <<"U00C4">>,
     U00E5 |-> <<"U00C5">>, U00E6 |-> <<"U00C6">>, U00E7 |-> <<"U00C7">>,
     U00E8 |-> <<"U00C8">>, U00E9 |-> <<"U00C9">>, U00EA |-> <<"U00CA">>,
     U00EB |-> <<"U00CB">>, U00EC |-> <<"U00CC">>, U00ED |-> <<"U00CD">>,
     U00EE |-> <<"U00CE">>, U00EF |-> <<"U00CF">>, U00F0 |-> <<"U00D0">>,
     U00F1 |-> <<"U00D1">>, U00F2 |-> <<"U00D2">>, U00F3 |-> <<"U00D3">>,
     U00F4 |-> <<"U00D4">>, U00F5 |-> <<"U00D5">>, U00F6 |-> <<"U00D6">>,
     U00F8 |-> <<"U00D8">>, U00F9 |-> <<"U00D9">>, U00FA |-> <<"U00DA">>,
     U00FB |-> <<"U00DB">>, U00FC |-> <<"U00DC">>, U00FD |-> <<"U00DD">>,
     U00FE |-> <<"U00DE">>, U00FF |-> <<"U0178">>, U0101 |-> <<"U0100">>,
     U0103 |-> <<"U0102">>, U0105 |-> <<"U0104">>, U0107 |-> <<"U0106">>,
     U0109 |-> <<"U0108">>, U010B |-> <<"U010A">>, U010D |-> <<"U010C">>,
     U010F |-> <<"U010E">>, U0111 |-> <<"U0110">>, U0113 |-> <<"U0112">>,
     U0115 |-> <<"U0114">>, U0117 |-> <<"U0116">>, U0119 |-> <<"U0118">>,
     U011B |-> <<"U011A">>, U011D |-> <<"U011C">>, U011F |-> <<"U011E">>,
     U0121 |-> <<"U0120">>, U0123 |-> <<"U0122">>, U0125 |-> <<"U0124">>,
     U0127 |-> <<"U0126">>, U0129 |-> <<"U0128">>, U012B |-> <<"U012A">>,
     U012D |-> <<"U012C">>, U012F |-> <<"U012E">>, U0131 |-> <<"I">>,
     U0133 |-> <<"U0132">>, U0135 |-> <<"U0134">>, U0137 |-> <<"U0136">>,
     U013A |-> <<"U0139">>, U013C |-> <<"U013B">>, U013E |-> <<"U013D">>,
     U0140 |-> <<"U013F">>, U0142 |-> <<"U0141">>, U0144 |-> <<"U0143">>,
     U0146 |-> <<"U0145">>, U0148 |-> <<"U0147">>,
     U0149 |-> <<"U02BC", "N">>, U014B |-> <<"U014A">>,
     U014D |-> <<"U014C">>, U014F |-> <<"U014E">>, U0151 |-> <<"U0150">>,
     U0153 |-> <<"U0152">>, U0155 |-> <<"U0154">>, U0157 |-> <<"U0156">>,
     U0159 |-> <<"U0158">>, U015B |-> <<"U015A">>, U015D |-> <<"U015C">>,
     U015F |-> <<"U015E">>, U0161 |-> <<"U0160">>, U0163 |-> <<"U0162">>,
     U0165 |-> <<"U0164">>, U0167 |-> <<"U0166">>, U0169 |-> <<"U0168">>,
     U016B |-> <<"U016A">>, U016D |-> <<"U016C">>, U016F |-> <<"U016E">>,
     U0171 |-> <<"U0170">>, U0173 |-> <<"U0172">>, U0175 |-> <<"U0174">>,
     U0177 |-> <<"U0176">>, U017A |-> <<"U0179">>, U017C |-> <<"U017B">>,
     U017E |-> <<"U017D">>, U017F |-> <<"S">>, U0180 |-> <<"U0243">>,
     U0183 |-> <<"U0182">>, U0185 |-> <<"U0184">>, U0188 |-> <<"U0187">>,
     U018C |-> <<"U018B">>, U0192 |-> <<"U0191">>, U0195 |-> <<"U01F6">>,
     U0199 |-> <<"U0198">>, U019A |-> <<"U023D">>, U019E |-> <<"U0220">>,
     U01A1 |-> <<"U01A0">>, U01A3 |-> <<"U01A2">>, U01A5 |-> <<"U01A4">>,
     U01A8 |-> <<"U01A7">>, U01AD |-> <<"U01AC">>, U01B0 |-> <<"U01AF">>,
     U01B4 |-> <<"U01B3">>, U01B6 |-> <<"U01B5">>, U01B9 |-> <<"U01B8">>,
     U01BD |-> <<"U01BC">>, U01BF |-> <<"U01F7">>, U01C5 |-> <<"U01C4">>,
     U01C6 |-> <<"U01C4">>, U01C8 |-> <<"U01C7">>, U01C9 |-> <<"U01C7">>,
     U01CB |-> <<"U01CA">>, U01CC |-> <<"U01CA">>, U01CE |-> <<"U01CD">>,
     U01D0 |-> <<"U01CF">>, U01D2 |-> <<"U01D1">>, U01D4 |-> <<"U01D3">>,
     U01D6 |-> <<"U01D5">>, U01D8 |-> <<"U01D7">>, U01DA |-> <<"U01D9">>,
     U01DC |-> <<"U01DB">>, U01DD |-> <<"U018E">>, U01DF |-> <<"U01DE">>,
     U01E1 |-> <<"U01E0">>, U01E3 |-> <<"U01E2">>, U01E5 |-> <<"U01E4">>,
     U01E7 |-> <<"U01E6">>, U01E9 |-> <<"U01E8">>, U01EB |-> <<"U01EA">>,
     U01ED |-> <<"U01EC">>, U01EF |-> <<"U01EE">>,
     U01F0 |-> <<"J", "U030C">>, U01F2 |-> <<"U01F1">>,
     U01F3 |-> <<"U01F1">>, U01F5 |-> <<"U01F4">>, U01F9 |-> <<"U01F8">>,
     U01FB |-> <<"U01FA">>, U01FD |-> <<"U01FC">>, U01FF |-> <<"U01FE">>,
     U0201 |-> <<"U0200">>, U0203 |-> <<"U0202">>, U0205 |-> <<"U0204">>,
     U0207 |-> <<"U0206">>, U0209 |-> <<"U0208">>, U020B |-> <<"U020A">>,
     U020D |-> <<"U020C">>, U020F |-> <<"U020E">>, U0211 |-> <<"U0210">>,
     U0213 |-> <<"U0212">>, U0215 |-> <<"U0214">>, U0217 |-> <<"U0216">>,
     U0219 |-> <<"U0218">>, U021B |-> <<"U021A">>, U021D |-> <<"U021C">>,
     U021F |-> <<"U021E">>, U0223 |-> <<"U0222">>, U0225 |-> <<"U0224">>,
     U0227 |-> <<"U0226">>, U0229 |-> <<"U0228">>, U022B |-> <<"U022A">>,
     U022D |-> <<"U022C">>, U022F |-> <<"U022E">>, U0231 |-> <<"U0230">>,
     U0233 |-> <<"U0232">>, U023C |-> <<"U023B">>, U023F |-> <<"U2C7E">>,
     U0240 |-> <<"U2C7F">>, U0242 |-> <<"U0241">>, U0247 |-> <<"U0246">>,
     U0249 |-> <<"U0248">>, U024B |-> <<"U024A">>, U024D |-> <<"U024C">>,
     U024F |-> <<"U024E">>, U0250 |-> <<"U2C6F">>, U0251 |-> <<"U2C6D">>,
     U0252 |-> <<"U2C70">>, U0253 |-> <<"U0181">>, U0254 |-> <<"U0186">>,
     U0256 |-> <<"U0189">>, U0257 |-> <<"U018A">>, U0259 |-> <<"U018F">>,
     U025B |-> <<"U0190">>, U025C |-> <<"UA7AB">>, U0260 |-> <<"U0193">>,
     U0261 |-> <<"UA7AC">>, U0263 |-> <<"U0194">>, U0265 |-> <<"UA78D">>,
     U0266 |-> <<"UA7AA">>, U0268 |-> <<"U0197">>, U0269 |-> <<"U0196">>,
     U026A |-> <<"UA7AE">>, U026B |-> <<"U2C62">>, U026C |-> <<"UA7AD">>,
     U026F |-> <<"U019C">>, U0271 |-> <<"U2C6E">>, U0272 |-> <<"U019D">>,
     U0275 |-> <<"U019F">>, U027D |-> <<"U2C64">>, U0280 |-> <<"U01A6">>,
     U0282 |-> <<"UA7C5">>, U0283 |-> <<"U01A9">>, U0287 |-> <<"UA7B1">>,
     U0288 |-> <<"U01AE">>, U0289 |-> <<"U0244">>, U028A |-> <<"U01B1">>,
     U028B |-> <<"U01B2">>, U028C |-> <<"U0245">>, U0292 |-> <<"U01B7">>,
     U029D |-> <<"UA7B2">>, U029E |-> <<"UA7B0">>, U0345 |-> <<"U0399">>,
     U0371 |-> <<"U0370">>, U0373 |-> <<"U0372">>, U0377 |-> <<"U0376">>,
     U037B |-> <<"U03FD">>, U037C |-> <<"U03FE">>, U037D |-> <<"U03FF">>,
     U0390 |-> <<"U0399", "U0308", "U0301">>, U03AC |-> <<"U0386">>,
     U03AD |-> <<"U0388">>, U03AE |-> <<"U0389">>, U03AF |-> <<"U038A">>,
     U03B0 |-> <<"U03A5", "U0308", "U0301">>, U03B1 |-> <<"U0391">>,
     U03B2 |-> <<"U0392">>, U03B3 |-> <<"U0393">>, U03B4 |-> <<"U0394">>,
     U03B5 |-> <<"U0395">>, U03B6 |-> <<"U0396">>, U03B7 |-> <<"U0397">>,
     U03B8 |-> <<"U0398">>, U03B9 |-> <<"U0399">>, U03BA |-> <<"U039A">>,
     U03BB |-> <<"U039B">>, U03BC |-> <<"U039C">>, U03BD |-> <<"U039D">>,
     U03BE |-> <<"U039E">>, U03BF |-> <<"U039F">>, U03C0 |-> <<"U03A0">>,
     U03C1 |-> <<"U03A1">>, U03C2 |-> <<"U03A3">>, U03C3 |-> <<"U03A3">>,
     U03C4 |-> <<"U03A4">>, U03C5 |-> <<"U03A5">>, U03C6 |-> <<"U03A6">>,
     U03C7 |-> <<"U03A7">>, U03C8 |-> <<"U03A8">>, U03C9 |-> <<"U03A9">>,
     U03CA |-> <<"U03AA">>, U03CB |-> <<"U03AB">>, U03CC |-> <<"U038C">>,
     U03CD |-> <<"U038E">>, U03CE |-> <<"U038F">>, U03D0 |-> <<"U0392">>,
     U03D1 |-> <<"U0398">>, U03D5 |-> <<"U03A6">>, U03D6 |-> <<"U03A0">>,
     U03D7 |-> <<"U03CF">>, U03D9 |-> <<"U03D8">>, U03DB |-> <<"U03DA">>,
     U03DD |-> <<"U03DC">>, U03DF |-> <<"U03DE">>, U03E1 |-> <<"U03E0">>,
     U03E3 |-> <<"U03E2">>, U03E5 |-> <<"U03E4">>, U03E7 |-> <<"U03E6">>,
     U03E9 |-> <<"U03E8">>, U03EB |-> <<"U03EA">>, U03ED |-> <<"U03EC">>,
     U03EF |-> <<"U03EE">>, U03F0 |-> <<"U039A">>, U03F1 |-> <<"U03A1">>,
     U03F2 |-> <<"U03F9">>, U03F3 |-> <<"U037F">>, U03F5 |-> <<"U0395">>,
     U03F8 |-> <<"U03F7">>, U03FB |-> <<"U03FA">>, U0430 |-> <<"U0410">>,
     U0431 |-> <<"U0411">>, U0432 |-> <<"U0412">>, U0433 |-> <<"U0413">>,
     U0434 |-> <<"U0414">>, U0435 |-> <<"U0415">>, U0436 |-> <<"U0416">>,
     U0437 |-> <<"U0417">>, U0438 |-> <<"U0418">>, U0439 |-> <<"U0419">>,
     U043A |-> <<"U041A">>, U043B |-> <<"U041B">>, U043C |-> <<"U041C">>,
     U043D |-> <<"U041D">>, U043E |-> <<"U041E">>, U043F |-> <<"U041F">>,
     U0440 |-> <<"U0420">>, U0441 |-> <<"U0421">>, U0442 |-> <<"U0422">>,
     U0443 |-> <<"U0423">>, U0444 |-> <<"U0424">>, U0445 |-> <<"U0425">>,
     U0446 |-> <<"U0426">>, U0447 |-> <<"U0427">>, U0448 |-> <<"U0428">>,
     U0449 |-> <<"U0429">>, U044A |-> <<"U042A">>, U044B |-> <<"U042B">>,
     U044C |-> <<"U042C">>, U044D |-> <<"U042D">>, U044E |-> <<"U042E">>,
     U044F |-> <<"U042F">>, U0450 |-> <<"U0400">>, U0451 |-> <<"U0401">>,
     U0452 |-> <<"U0402">>, U0453 |-> <<"U0403">>, U0454 |-> <<"U0404">>,
     U0455 |-> <<"U0405">>, U0456 |-> <<"U0406">>, U0457 |-> <<"U0407">>,
     U0458 |-> <<"U0408">>, U0459 |-> <<"U0409">>, U045A |-> <<"U040A">>,
     U045B |-> <<"U040B">>, U045C |-> <<"U040C">>, U045D |-> <<"U040D">>,
     U045E |-> <<"U040E">>, U045F |-> <<"U040F">>, U0461 |-> <<"U0460">>,
     U0463 |-> <<"U0462">>, U0465 |-> <<"U0464">>, U0467 |-> <<"U0466">>,
     U0469 |-> <<"U0468">>, U046B |-> <<"U046A">>, U046D |-> <<"U046C">>,
     U046F |-> <<"U046E">>, U0471 |-> <<"U0470">>, U0473 |-> <<"U0472">>,
     U0475 |-> <<"U0474">>, U0477 |-> <<"U0476">>, U0479 |-> <<"U0478">>,
     U047B |-> <<"U047A">>, U047D |-> <<"U047C">>, U047F |-> <<"U047E">>,
     U0481 |-> <<"U0480">>, U048B |-> <<"U048A">>, U048D |-> <<"U048C">>,
     U048F |-> <<"U048E">>, U0491 |-> <<"U0490">>, U0493 |-> <<"U0492">>,
     U0495 |-> <<"U0494">>, U0497 |-> <<"U0496">>, U0499 |-> <<"U0498">>,
     U049B |-> <<"U049A">>, U049D |-> <<"U049C">>, U049F |-> <<"U049E">>,
     U04A1 |-> <<"U04A0">>, U04A3 |-> <<"U04A2">>, U04A5 |-> <<"U04A4">>,
     U04A7 |-> <<"U04A6">>, U04A9 |-> <<"U04A8">>, U04AB |-> <<"U04AA">>,
     U04AD |-> <<"U04AC">>, U04AF |-> <<"U04AE">>, U04B1 |-> <<"U04B0">>,
     U04B3 |-> <<"U04B2">>, U04B5 |-> <<"U04B4">>, U04B7 |-> <<"U04B6">>,
     U04B9 |-> <<"U04B8">>, U04BB |-> <<"U04BA">>, U04BD |-> <<"U04BC">>,
     U04BF |-> <<"U04BE">>, U04C2 |-> <<"U04C1">>, U04C4 |-> <<"U04C3">>,
     U04C6 |-> <<"U04C5">>, U04C8 |-> <<"U04C7">>, U04CA |-> <<"U04C9">>,
     U04CC |-> <<"U04CB">>, U04CE |-> <<"U04CD">>, U04CF |-> <<"U04C0">>,
     U04D1 |-> <<"U04D0">>, U04D3 |-> <<"U04D2">>, U04D5 |-> <<"U04D4">>,
     U04D7 |-> <<"U04D6">>, U04D9 |-> <<"U04D8">>, U04DB |-> <<"U04DA">>,
     U04DD |-> <<"U04DC">>, U04DF |-> <<"U04DE">>, U04E1 |-> <<"U04E0">>,
     U04E3 |-> <<"U04E2">>, U04E5 |-> <<"U04E4">>, U04E7 |-> <<"U04E6">>,
     U04E9 |-> <<"U04E8">>, U04EB |-> <<"U04EA">>, U04ED |-> <<"U04EC">>,
     U04EF |-> <<"U04EE">>, U04F1 |-> <<"U04F0">>, U04F3 |-> <<"U04F2">>,
     U04F5 |-> <<"U04F4">>, U04F7 |-> <<"U04F6">>, U04F9 |-> <<"U04F8">>,
     U04FB |-> <<"U04FA">>, U04FD |-> <<"U04FC">>, U04FF |-> <<"U04FE">>,
     U0501 |-> <<"U0500">>, U0503 |-> <<"U0502">>, U0505 |-> <<"U0504">>,
     U0507 |-> <<"U0506">>, U0509 |-> <<"U0508">>, U050B |-> <<"U050A">>,
     U050D |-> <<"U050C">>, U050F |-> <<"U050E">>, U0511 |-> <<"U0510">>,
     U0513 |-> <<"U0512">>, U0515 |-> <<"U0514">>, U0517 |-> <<"U0516">>,
     U0519 |-> <<"U0518">>, U051B |-> <<"U051A">>, U051D |-> <<"U051C">>,
     U051F |-> <<"U051E">>, U0521 |-> <<"U0520">>, U0523 |-> <<"U0522">>,
     U0525 |-> <<"U0524">>, U0527 |-> <<"U0526">>, U0529 |-> <<"U0528">>,
     U052B |-> <<"U052A">>, U052D |-> <<"U052C">>, U052F |-> <<"U052E">>,
     U0561 |-> <<"U0531">>, U0562 |-> <<"U0532">>, U0563 |-> <<"U0533">>,
     U0564 |-> <<"U0534">>, U0565 |-> <<"U0535">>, U0566 |-> <<"U0536">>,
     U0567 |-> <<"U0537">>, U0568 |-> <<"U0538">>, U0569 |-> <<"U0539">>,
     U056A |-> <<"U053A">>, U056B |-> <<"U053B">>, U056C |-> <<"U053C">>,
     U056D |-> <<"U053D">>, U056E |-> <<"U053E">>, U056F |-> <<"U053F">>,
     U0570 |-> <<"U0540">>, U0571 |-> <<"U0541">>, U0572 |-> <<"U0542">>,
     U0573 |-> <<"U0543">>, U0574 |-> <<"U0544">>, U0575 |-> <<"U0545">>,
     U0576 |-> <<"U0546">>, U0577 |-> <<"U0547">>, U0578 |-> <<"U0548">>,
     U0579 |-> <<"U0549">>, U057A |-> <<"U054A">>, U057B |-> <<"U054B">>,
     U057C |-> <<"U054C">>, U057D |-> <<"U054D">>, U057E |-> <<"U054E">>,
     U057F |-> <<"U054F">>, U0580 |-> <<"U0550">>, U0581 |-> <<"U0551">>,
     U0582 |-> <<"U0552">>, U0583 |-> <<"U0553">>, U0584 |-> <<"U0554">>,
     U0585 |-> <<"U0555">>, U0586 |-> <<"U0556">>,
     U0587 |-> <<"U0535", "U0552">>, U10D0 |-> <<"U1C90">>,
     U10D1 |-> <<"U1C91">>, U10D2 |-> <<"U1C92">>, U10D3 |-> <<"U1C93">>,
     U10D4 |-> <<"U1C94">>, U10D5 |-> <<"U1C95">>, U10D6 |-> <<"U1C96">>,
     U10D7 |-> <<"U1C97">>, U10D8 |-> <<"U1C98">>, U10D9 |-> <<"U1C99">>,
     U10DA |-> <<"U1C9A">>, U10DB |-> <<"U1C9B">>, U10DC |-> <<"U1C9C">>,
     U10DD |-> <<"U1C9D">>, U10DE |-> <<"U1C9E">>, U10DF |-> <<"U1C9F">>,
     U10E0 |-> <<"U1CA0">>, U10E1 |-> <<"U1CA1">>, U10E2 |-> <<"U1CA2">>,
     U10E3 |-> <<"U1CA3">>, U10E4 |-> <<"U1CA4">>, U10E5 |-> <<"U1CA5">>,
     U10E6 |-> <<"U1CA6">>, U10E7 |-> <<"U1CA7">>, U10E8 |-> <<"U1CA8">>,
     U10E9 |-> <<"U1CA9">>, U10EA |-> <<"U1CAA">>, U10EB |-> <<"U1CAB">>,
     U10EC |-> <<"U1CAC">>, U10ED |-> <<"U1CAD">>, U10EE |-> <<"U1CAE">>,
     U10EF |-> <<"U1CAF">>, U10F0 |-> <<"U1CB0">>, U10F1 |-> <<"U1CB1">>,
     U10F2 |-> <<"U1CB2">>, U10F3 |-> <<"U1CB3">>, U10F4 |-> <<"U1CB4">>,
     U10F5 |-> <<"U1CB5">>, U10F6 |-> <<"U1CB6">>, U10F7 |-> <<"U1CB7">>,
     U10F8 |-> <<"U1CB8">>, U10F9 |-> <<"U1CB9">>, U10FA |-> <<"U1CBA">>,
     U10FD |-> <<"U1CBD">>, U10FE |-> <<"U1CBE">>, U10FF |-> <<"U1CBF">>,
     U13F8 |-> <<"U13F0">>, U13F9 |-> <<"U13F1">>, U13FA |-> <<"U13F2">>,
     U13FB |-> <<"U13F3">>, U13FC |-> <<"U13F4">>, U13FD |-> <<"U13F5">>,
     U1C80 |-> <<"U0412">>, U1C81 |-> <<"U0414">>, U1C82 |-> <<"U041E">>,
     U1C83 |-> <<"U0421">>, U1C84 |-> <<"U0422">>, U1C85 |-> <<"U0422">>,
     U1C86 |-> <<"U042A">>, U1C87 |-> <<"U0462">>, U1C88 |-> <<"UA64A">>,
     U1D79 |-> <<"UA77D">>, U1D7D |-> <<"U2C63">>, U1D8E |-> <<"UA7C6">>,
     U1E01 |-> <<"U1E00">>, U1E03 |-> <<"U1E02">>, U1E05 |-> <<"U1E04">>,
     U1E07 |-> <<"U1E06">>, U1E09 |-> <<"U1E08">>, U1E0B |-> <<"U1E0A">>,
     U1E0D |-> <<"U1E0C">>, U1E0F |-> <<"U1E0E">>, U1E11 |-> <<"U1E10">>,
     U1E13 |-> <<"U1E12">>, U1E15 |-> <<"U1E14">>, U1E17 |-> <<"U1E16">>,
     U1E19 |-> <<"U1E18">>, U1E1B |-> <<"U1E1A">>, U1E1D |-> <<"U1E1C">>,
     U1E1F |-> <<"U1E1E">>, U1E21 |-> <<"U1E20">>, U1E23 |-> <<"U1E22">>,
     U1E25 |-> <<"U1E24">>, U1E27 |-> <<"U1E26">>, U1E29 |-> <<"U1E28">>,
     U1E2B |-> <<"U1E2A">>, U1E2D |-> <<"U1E2C">>, U1E2F |-> <<"U1E2E">>,
     U1E31 |-> <<"U1E30">>, U1E33 |-> <<"U1E32">>, U1E35 |-> <<"U1E34">>,
     U1E37 |-> <<"U1E36">>, U1E39 |-> <<"U1E38">>, U1E3B |-> <<"U1E3A">>,
     U1E3D |-> <<"U1E3C">>, U1E3F |-> <<"U1E3E">>, U1E41 |-> <<"U1E40">>,
     U1E43 |-> <<"U1E42">>, U1E45 |-> <<"U1E44">>, U1E47 |-> <<"U1E46">>,
     U1E49 |-> <<"U1E48">>, U1E4B |-> <<"U1E4A">>, U1E4D |-> <<"U1E4C">>,
     U1E4F |-> <<"U1E4E">>, U1E51 |-> <<"U1E50">>, U1E53 |-> <<"U1E52">>,
     U1E55 |-> <<"U1E54">>, U1E57 |-> <<"U1E56">>, U1E59 |-> <<"U1E58">>,
     U1E5B |-> <<"U1E5A">>, U1E5D |-> <<"U1E5C">>, U1E5F |-> <<"U1E5E">>,
     U1E61 |-> <<"U1E60">>, U1E63 |-> <<"U1E62">>, U1E65 |-> <<"U1E64">>,
     U1E67 |-> <<"U1E66">>, U1E69 |-> <<"U1E68">>, U1E6B |-> <<"U1E6A">>,
     U1E6D |-> <<"U1E6C">>, U1E6F |-> <<"U1E6E">>, U1E71 |-> <<"U1E70">>,
     U1E73 |-> <<"U1E72">>, U1E75 |-> <<"U1E74">>, U1E77 |-> <<"U1E76">>,
     U1E79 |-> <<"U1E78">>, U1E7B |-> <<"U1E7A">>, U1E7D |-> <<"U1E7C">>,
     U1E7F |-> <<"U1E7E">>, U1E81 |-> <<"U1E80">>, U1E83 |-> <<"U1E82">>,
     U1E85 |-> <<"U1E84">>, U1E87 |-> <<"U1E86">>, U1E89 |-> <<"U1E88">>,
     U1E8B |-> <<"U1E8A">>, U1E8D |-> <<"U1E8C">>, U1E8F |-> <<"U1E8E">>,
     U1E91 |-> <<"U1E90">>, U1E93 |-> <<"U1E92">>, U1E95 |-> <<"U1E94">>,
     U1E96 |-> <<"H", "U0331">>, U1E97 |-> <<"T", "U0308">>,
     U1E98 |-> <<"W", "U030A">>, U1E99 |-> <<"Y", "U030A">>,
     U1E9A |-> <<"A", "U02BE">>, U1E9B |-> <<"U1E60">>,
     U1EA1 |-> <<"U1EA0">>, U1EA3 |-> <<"U1EA2">>, U1EA5 |-> <<"U1EA4">>,
     U1EA7 |-> <<"U1EA6">>, U1EA9 |-> <<"U1EA8">>, U1EAB |-> <<"U1EAA">>,
     U1EAD |-> <<"U1EAC">>, U1EAF |-> <<"U1EAE">>, U1EB1 |-> <<"U1EB0">>,
     U1EB3 |-> <<"U1EB2">>, U1EB5 |-> <<"U1EB4">>, U1EB7 |-> <<"U1EB6">>,
     U1EB9 |-> <<"U1EB8">>, U1EBB |-> <<"U1EBA">>, U1EBD |-> <<"U1EBC">>,
     U1EBF |-> <<"U1EBE">>, U1EC1 |-> <<"U1EC0">>, U1EC3 |-> <<"U1EC2">>,
     U1EC5 |-> <<"U1EC4">>, U1EC7 |-> <<"U1EC6">>, U1EC9 |-> <<"U1EC8">>,
     U1ECB |-> <<"U1ECA">>, U1ECD |-> <<"U1ECC">>, U1ECF |-> <<"U1ECE">>,
     U1ED1 |-> <<"U1ED0">>, U1ED3 |-> <<"U1ED2">>, U1ED5 |-> <<"U1ED4">>,
     U1ED7 |-> <<"U1ED6">>, U1ED9 |-> <<"U1ED8">>, U1EDB |-> <<"U1EDA">>,
     U1EDD |-> <<"U1EDC">>, U1EDF |-> <<"U1EDE">>, U1EE1 |-> <<"U1EE0">>,
     U1EE3 |-> <<"U1EE2">>, U1EE5 |-> <<"U1EE4">>, U1EE7 |-> <<"U1EE6">>,
     U1EE9 |-> <<"U1EE8">>, U1EEB |-> <<"U1EEA">>, U1EED |-> <<"U1EEC">>,
     U1EEF |-> <<"U1EEE">>, U1EF1 |-> <<"U1EF0">>, U1EF3 |-> <<"U1EF2">>,
     U1EF5 |-> <<"U1EF4">>, U1EF7 |-> <<"U1EF6">>, U1EF9 |-> <<"U1EF8">>,
     U1EFB |-> <<"U1EFA">>, U1EFD |-> <<"U1EFC">>, U1EFF |-> <<"U1EFE">>,
     U1F00 |-> <<"U1F08">>, U1F01 |-> <<"U1F09">>, U1F02 |-> <<"U1F0A">>,
     U1F03 |-> <<"U1F0B">>, U1F04 |-> <<"U1F0C">>, U1F05 |-> <<"U1F0D">>,
     U1F06 |-> <<"U1F0E">>, U1F07 |-> <<"U1F0F">>, U1F10 |-> <<"U1F18">>,
     U1F11 |-> <<"U1F19">>, U1F12 |-> <<"U1F1A">>, U1F13 |-> <<"U1F1B">>,
     U1F14 |-> <<"U1F1C">>, U1F15 |-> <<"U1F1D">>, U1F20 |-> <<"U1F28">>,
     U1F21 |-> <<"U1F29">>, U1F22 |-> <<"U1F2A">>, U1F23 |-> <<"U1F2B">>,
     U1F24 |-> <<"U1F2C">>, U1F25 |-> <<"U1F2D">>, U1F26 |-> <<"U1F2E">>,
     U1F27 |-> <<"U1F2F">>, U1F30 |-> <<"U1F38">>, U1F31 |-> <<"U1F39">>,
     U1F32 |-> <<"U1F3A">>, U1F33 |-> <<"U1F3B">>, U1F34 |-> <<"U1F3C">>,
     U1F35 |-> <<"U1F3D">>, U1F36 |-> <<"U1F3E">>, U1F37 |-> <<"U1F3F">>,
     U1F40 |-> <<"U1F48">>, U1F41 |-> <<"U1F49">>, U1F42 |-> <<"U1F4A">>,
     U1F43 |-> <<"U1F4B">>, U1F44 |-> <<"U1F4C">>, U1F45 |-> <<"U1F4D">>,
     U1F50 |-> <<"U03A5", "U0313">>, U1F51 |-> <<"U1F59">>,
     U1F52 |-> <<"U03A5", "U0313", "U0300">>, U1F53 |-> <<"U1F5B">>,
     U1F54 |-> <<"U03A5", "U0313", "U0301">>, U1F55 |-> <<"U1F5D">>,
     U1F56 |-> <<"U03A5", "U0313", "U0342">>, U1F57 |-> <<"U1F5F">>,
     U1F60 |-> <<"U1F68">>, U1F61 |-> <<"U1F69">>, U1F62 |-> <<"U1F6A">>,
     U1F63 |-> <<"U1F6B">>, U1F64 |-> <<"U1F6C">>, U1F65 |-> <<"U1F6D">>,
     U1F66 |-> <<"U1F6E">>, U1F67 |-> <<"U1F6F">>, U1F70 |-> <<"U1FBA">>,
     U1F71 |-> <<"U1FBB">>, U1F72 |-> <<"U1FC8">>, U1F73 |-> <<"U1FC9">>,
     U1F74 |-> <<"U1FCA">>, U1F75 |-> <<"U1FCB">>, U1F76 |-> <<"U1FDA">>,
     U1F77 |-> <<"U1FDB">>, U1F78 |-> <<"U1FF8">>, U1F79 |-> <<"U1FF9">>,
     U1F7A |-> <<"U1FEA">>, U1F7B |-> <<"U1FEB">>, U1F7C |-> <<"U1FFA">>,
     U1F7D |-> <<"U1FFB">>, U1F80 |-> <<"U1F08", "U0399">>,
     U1F81 |-> <<"U1F09", "U0399">>, U1F82 |-> <<"U1F0A", "U0399">>,
     U1F83 |-> <<"U1F0B", "U0399">>, U1F84 |-> <<"U1F0C", "U0399">>,
     U1F85 |-> <<"U1F0D", "U0399">>, U1F86 |-> <<"U1F0E", "U0399">>,
     U1F87 |-> <<"U1F0F", "U0399">>, U1F88 |-> <<"U1F08", "U0399">>,
     U1F89 |-> <<"U1F09", "U0399">>, U1F8A |-> <<"U1F0A", "U0399">>,
     U1F8B |-> <<"U1F0B", "U0399">>, U1F8C |-> <<"U1F0C", "U0399">>,
     U1F8D |-> <<"U1F0D", "U0399">>, U1F8E |-> <<"U1F0E", "U0399">>,
     U1F8F |-> <<"U1F0F", "U0399">>, U1F90 |-> <<"U1F28", "U0399">>,
     U1F91 |-> <<"U1F29", "U0399">>, U1F92 |-> <<"U1F2A", "U0399">>,
     U1F93 |-> <<"U1F2B", "U0399">>, U1F94 |-> <<"U1F2C", "U0399">>,
     U1F95 |-> <<"U1F2D", "U0399">>, U1F96 |-> <<"U1F2E", "U0399">>,
     U1F97 |-> <<"U1F2F", "U0399">>, U1F98 |-> <<"U1F28", "U0399">>,
     U1F99 |-> <<"U1F29", "U0399">>, U1F9A |-> <<"U1F2A", "U0399">>,
     U1F9B |-> <<"U1F2B", "U0399">>, U1F9C |-> <<"U1F2C", "U0399">>,
     U1F9D |-> <<"U1F2D", "U0399">>, U1F9E |-> <<"U1F2E", "U0399">>,
     U1F9F |-> <<"U1F2F", "U0399">>, U1FA0 |-> <<"U1F68", "U0399">>,
     U1FA1 |-> <<"U1F69", "U0399">>, U1FA2 |-> <<"U1F6A", "U0399">>,
     U1FA3 |-> <<"U1F6B", "U0399">>, U1FA4 |-> <<"U1F6C", "U0399">>,
     U1FA5 |-> <<"U1F6D", "U0399">>, U1FA6 |-> <<"U1F6E", "U0399">>,
     U1FA7 |-> <<"U1F6F", "U0399">>, U1FA8 |-> <<"U1F68", "U0399">>,
     U1FA9 |-> <<"U1F69", "U0399">>, U1FAA |-> <<"U1F6A", "U0399">>,
     U1FAB |-> <<"U1F6B", "U0399">>, U1FAC |-> <<"U1F6C", "U0399">>,
     U1FAD |-> <<"U1F6D", "U0399">>, U1FAE |-> <<"U1F6E", "U0399">>,
     U1FAF |-> <<"U1F6F", "U0399">>, U1FB0 |-> <<"U1FB8">>,
     U1FB1 |-> <<"U1FB9">>, U1FB2 |-> <<"U1FBA", "U0399">>,
     U1FB3 |-> <<"U0391", "U0399">>, U1FB4 |-> <<"U0386", "U0399">>,
     U1FB6 |-> <<"U0391", "U0342">>, U1FB7 |-> <<"U0391", "U0342", "U0399">>,
     U1FBC |-> <<"U0391", "U0399">>, U1FBE |-> <<"U0399">>,
     U1FC2 |-> <<"U1FCA", "U0399">>, U1FC3 |-> <<"U0397", "U0399">>,
     U1FC4 |-> <<"U0389", "U0399">>, U1FC6 |-> <<"U0397", "U0342">>,
     U1FC7 |-> <<"U0397", "U0342", "U0399">>, U1FCC |-> <<"U0397", "U0399">>,
     U1FD0 |-> <<"U1FD8">>, U1FD1 |-> <<"U1FD9">>,
     U1FD2 |-> <<"U0399", "U0308", "U0300">>,
     U1FD3 |-> <<"U0399", "U0308", "U0301">>, U1FD6 |-> <<"U0399", "U0342">>,
     U1FD7 |-> <<"U0399", "U0308", "U0342">>, U1FE0 |-> <<"U1FE8">>,
     U1FE1 |-> <<"U1FE9">>, U1FE2 |-> <<"U03A5", "U0308", "U0300">>,
     U1FE3 |-> <<"U03A5", "U0308", "U0301">>, U1FE4 |-> <<"U03A1", "U0313">>,
     U1FE5 |-> <<"U1FEC">>, U1FE6 |-> <<"U03A5", "U0342">>,
     U1FE7 |-> <<"U03A5", "U0308", "U0342">>, U1FF2 |-> <<"U1FFA", "U0399">>,
     U1FF3 |-> <<"U03A9", "U0399">>, U1FF4 |-> <<"U038F", "U0399">>,
     U1FF6 |-> <<"U03A9", "U0342">>, U1FF7 |-> <<"U03A9", "U0342", "U0399">>,
     U1FFC |-> <<"U03A9", "U0399">>, U214E |-> <<"U2132">>,
     U2170 |-> <<"U2160">>, U2171 |-> <<"U2161">>, U2172 |-> <<"U2162">>,
     U2173 |-> <<"U2163">>, U2174 |-> <<"U2164">>, U2175 |-> <<"U2165">>,
     U2176 |-> <<"U2166">>, U2177 |-> <<"U2167">>, U2178 |-> <<"U2168">>,
     U2179 |-> <<"U2169">>, U217A |-> <<"U216A">>, U217B |-> <<"U216B">>,
     U217C |-> <<"U216C">>, U217D |-> <<"U216D">>, U217E |-> <<"U216E">>,
     U217F |-> <<"U216F">>, U2184 |-> <<"U2183">>, U24D0 |-> <<"U24B6">>,
     U24D1 |-> <<"U24B7">>, U24D2 |-> <<"U24B8">>, U24D3 |-> <<"U24B9">>,
     U24D4 |-> <<"U24BA">>, U24D5 |-> <<"U24BB">>, U24D6 |-> <<"U24BC">>,
     U24D7 |-> <<"U24BD">>, U24D8 |-> <<"U24BE">>, U24D9 |-> <<"U24BF">>,
     U24DA |-> <<"U24C0">>, U24DB |-> <<"U24C1">>, U24DC |-> <<"U24C2">>,
     U24DD |-> <<"U24C3">>, U24DE |-> <<"U24C4">>, U24DF |-> <<"U24C5">>,
     U24E0 |-> <<"U24C6">>, U24E1 |-> <<"U24C7">>, U24E2 |-> <<"U24C8">>,
     U24E3 |-> <<"U24C9">>, U24E4 |-> <<"U24CA">>, U24E5 |-> <<"U24CB">>,
     U24E6 |-> <<"U24CC">>, U24E7 |-> <<"U24CD">>, U24E8 |-> <<"U24CE">>,
     U24E9 |-> <<"U24CF">>, U2C30 |-> <<"U2C00">>, U2C31 |-> <<"U2C01">>,
     U2C32 |-> <<"U2C02">>, U2C33 |-> <<"U2C03">>, U2C34 |-> <<"U2C04">>,
     U2C35 |-> <<"U2C05">>, U2C36 |-> <<"U2C06">>, U2C37 |-> <<"U2C07">>,
     U2C38 |-> <<"U2C08">>, U2C39 |-> <<"U2C09">>, U2C3A |-> <<"U2C0A">>,
     U2C3B |-> <<"U2C0B">>, U2C3C |-> <<"U2C0C">>, U2C3D |-> <<"U2C0D">>,
     U2C3E |-> <<"U2C0E">>, U2C3F |-> <<"U2C0F">>, U2C40 |-> <<"U2C10">>,
     U2C41 |-> <<"U2C11">>, U2C42 |-> <<"U2C12">>, U2C43 |-> <<"U2C13">>,
     U2C44 |-> <<"U2C14">>, U2C45 |-> <<"U2C15">>, U2C46 |-> <<"U2C16">>,
     U2C47 |-> <<"U2C17">>, U2C48 |-> <<"U2C18">>, U2C49 |-> <<"U2C19">>,
     U2C4A |-> <<"U2C1A">>, U2C4B |-> <<"U2C1B">>, U2C4C |-> <<"U2C1C">>,
     U2C4D |-> <<"U2C1D">>, U2C4E |-> <<"U2C1E">>, U2C4F |-> <<"U2C1F">>,
     U2C50 |-> <<"U2C20">>, U2C51 |-> <<"U2C21">>, U2C52 |-> <<"U2C22">>,
     U2C53 |-> <<"U2C23">>, U2C54 |-> <<"U2C24">>, U2C55 |-> <<"U2C25">>,
     U2C56 |-> <<"U2C26">>, U2C57 |-> <<"U2C27">>, U2C58 |-> <<"U2C28">>,
     U2C59 |-> <<"U2C29">>, U2C5A |-> <<"U2C2A">>, U2C5B |-> <<"U2C2B">>,
     U2C5C |-> <<"U2C2C">>, U2C5D |-> <<"U2C2D">>, U2C5E |-> <<"U2C2E">>,
     U2C5F |-> <<"U2C2F">>, U2C61 |-> <<"U2C60">>, U2C65 |-> <<"U023A">>,
     U2C66 |-> <<"U023E">>, U2C68 |-> <<"U2C67">>, U2C6A |-> <<"U2C69">>,
     U2C6C |-> <<"U2C6B">>, U2C73 |-> <<"U2C72">>, U2C76 |-> <<"U2C75">>,
     U2C81 |-> <<"U2C80">>, U2C83 |-> <<"U2C82">>, U2C85 |-> <<"U2C84">>,
     U2C87 |-> <<"U2C86">>, U2C89 |-> <<"U2C88">>, U2C8B |-> <<"U2C8A">>,
     U2C8D |-> <<"U2C8C">>, U2C8F |-> <<"U2C8E">>, U2C91 |-> <<"U2C90">>,
     U2C93 |-> <<"U2C92">>, U2C95 |-> <<"U2C94">>, U2C97 |-> <<"U2C96">>,
     U2C99 |-> <<"U2C98">>, U2C9B |-> <<"U2C9A">>, U2C9D |-> <<"U2C9C">>,
     U2C9F |-> <<"U2C9E">>, U2CA1 |-> <<"U2CA0">>, U2CA3 |-> <<"U2CA2">>,
     U2CA5 |-> <<"U2CA4">>, U2CA7 |-> <<"U2CA6">>, U2CA9 |-> <<"U2CA8">>,
     U2CAB |-> <<"U2CAA">>, U2CAD |-> <<"U2CAC">>, U2CAF |-> <<"U2CAE">>,
     U2CB1 |-> <<"U2CB0">>, U2CB3 |-> <<"U2CB2">>, U2CB5 |-> <<"U2CB4">>,
     U2CB7 |-> <<"U2CB6">>, U2CB9 |-> <<"U2CB8">>, U2CBB |-> <<"U2CBA">>,
     U2CBD |-> <<"U2CBC">>, U2CBF |-> <<"U2CBE">>, U2CC1 |-> <<"U2CC0">>,
     U2CC3 |-> <<"U2CC2">>, U2CC5 |-> <<"U2CC4">>, U2CC7 |-> <<"U2CC6">>,
     U2CC9 |-> <<"U2CC8">>, U2CCB |-> <<"U2CCA">>, U2CCD |-> <<"U2CCC">>,
     U2CCF |-> <<"U2CCE">>, U2CD1 |-> <<"U2CD0">>, U2CD3 |-> <<"U2CD2">>,
     U2CD5 |-> <<"U2CD4">>, U2CD7 |-> <<"U2CD6">>, U2CD9 |-> <<"U2CD8">>,
     U2CDB |-> <<"U2CDA">>, U2CDD |-> <<"U2CDC">>, U2CDF |-> <<"U2CDE">>,
     U2CE1 |-> <<"U2CE0">>, U2CE3 |-> <<"U2CE2">>, U2CEC |-> <<"U2CEB">>,
     U2CEE |-> <<"U2CED">>, U2CF3 |-> <<"U2CF2">>, U2D00 |-> <<"U10A0">>,
     U2D01 |-> <<"U10A1">>, U2D02 |-> <<"U10A2">>, U2D03 |-> <<"U10A3">>,
     U2D04 |-> <<"U10A4">>, U2D05 |-> <<"U10A5">>, U2D06 |-> <<"U10A6">>,
     U2D07 |-> <<"U10A7">>, U2D08 |-> <<"U10A8">>, U2D09 |-> <<"U10A9">>,
     U2D0A |-> <<"U10AA">>, U2D0B |-> <<"U10AB">>, U2D0C |-> <<"U10AC">>,
     U2D0D |-> <<"U10AD">>, U2D0E |-> <<"U10AE">>, U2D0F |-> <<"U10AF">>,
     U2D10 |-> <<"U10B0">>, U2D11 |-> <<"U10B1">>, U2D12 |-> <<"U10B2">>,
     U2D13 |-> <<"U10B3">>, U2D14 |-> <<"U10B4">>, U2D15 |-> <<"U10B5">>,
     U2D16 |-> <<"U10B6">>, U2D17 |-> <<"U10B7">>, U2D18 |-> <<"U10B8">>,
     U2D19 |-> <<"U10B9">>, U2D1A |-> <<"U10BA">>, U2D1B |-> <<"U10BB">>,
     U2D1C |-> <<"U10BC">>, U2D1D |-> <<"U10BD">>, U2D1E |-> <<"U10BE">>,
     U2D1F |-> <<"U10BF">>, U2D20 |-> <<"U10C0">>, U2D21 |-> <<"U10C1">>,
     U2D22 |-> <<"U10C2">>, U2D23 |-> <<"U10C3">>, U2D24 |-> <<"U10C4">>,
     U2D25 |-> <<"U10C5">>, U2D27 |-> <<"U10C7">>, U2D2D |-> <<"U10CD">>,
     UA641 |-> <<"UA640">>, UA643 |-> <<"UA642">>, UA645 |-> <<"UA644">>,
     UA647 |-> <<"UA646">>, UA649 |-> <<"UA648">>, UA64B |-> <<"UA64A">>,
     UA64D |-> <<"UA64C">>, UA64F |-> <<"UA64E">>, UA651 |-> <<"UA650">>,
     UA653 |-> <<"UA652">>, UA655 |-> <<"UA654">>, UA657 |-> <<"UA656">>,
     UA659 |-> <<"UA658">>, UA65B |-> <<"UA65A">>, UA65D |-> <<"UA65C">>,
     UA65F |-> <<"UA65E">>, UA661 |-> <<"UA660">>, UA663 |-> <<"UA662">>,
     UA665 |-> <<"UA664">>, UA667 |-> <<"UA666">>, UA669 |-> <<"UA668">>,
     UA66B |-> <<"UA66A">>, UA66D |-> <<"UA66C">>, UA681 |-> <<"UA680">>,
     UA683 |-> <<"UA682">>, UA685 |-> <<"UA684">>, UA687 |-> <<"UA686">>,
     UA689 |-> <<"UA688">>, UA68B |-> <<"UA68A">>, UA68D |-> <<"UA68C">>,
     UA68F |-> <<"UA68E">>, UA691 |-> <<"UA690">>, UA693 |-> <<"UA692">>,
     UA695 |-> <<"UA694">>, UA697 |-> <<"UA696">>, UA699 |-> <<"UA698">>,
     UA69B |-> <<"UA69A">>, UA723 |-> <<"UA722">>, UA725 |-> <<"UA724">>,
     UA727 |-> <<"UA726">>, UA729 |-> <<"UA728">>, UA72B |-> <<"UA72A">>,
     UA72D |-> <<"UA72C">>, UA72F |-> <<"UA72E">>, UA733 |-> <<"UA732">>,
     UA735 |-> <<"UA734">>, UA737 |-> <<"UA736">>, UA739 |-> <<"UA738">>,
     UA73B |-> <<"UA73A">>, UA73D |-> <<"UA73C">>, UA73F |-> <<"UA73E">>,
     UA741 |-> <<"UA740">>, UA743 |-> <<"UA742">>, UA745 |-> <<"UA744">>,
     UA747 |-> <<"UA746">>, UA749 |-> <<"UA748">>, UA74B |-> <<"UA74A">>,
     UA74D |-> <<"UA74C">>, UA74F |-> <<"UA74E">>, UA751 |-> <<"UA750">>,
     UA753 |-> <<"UA752">>, UA755 |-> <<"UA754">>, UA757 |-> <<"UA756">>,
     UA759 |-> <<"UA758">>, UA75B |-> <<"UA75A">>, UA75D |-> <<"UA75C">>,
     UA75F |-> <<"UA75E">>, UA761 |-> <<"UA760">>, UA763 |-> <<"UA762">>,
     UA765 |-> <<"UA764">>, UA767 |-> <<"UA766">>, UA769 |-> <<"UA768">>,
     UA76B |-> <<"UA76A">>, UA76D |-> <<"UA76C">>, UA76F |-> <<"UA76E">>,
     UA77A |-> <<"UA779">>, UA77C |-> <<"UA77B">>, UA77F |-> <<"UA77E">>,
     UA781 |-> <<"UA780">>, UA783 |-> <<"UA782">>, UA785 |-> <<"UA784">>,
     UA787 |-> <<"UA786">>, UA78C |-> <<"UA78B">>, UA791 |-> <<"UA790">>,
     UA793 |-> <<"UA792">>, UA794 |-> <<"UA7C4">>, UA797 |-> <<"UA796">>,
     UA799 |-> <<"UA798">>, UA79B |-> <<"UA79A">>, UA79D |-> <<"UA79C">>,
     UA79F |-> <<"UA79E">>, UA7A1 |-> <<"UA7A0">>, UA7A3 |-> <<"UA7A2">>,
     UA7A5 |-> <<"UA7A4">>, UA7A7 |-> <<"UA7A6">>, UA7A9 |-> <<"UA7A8">>,
     UA7B5 |-> <<"UA7B4">>, UA7B7 |-> <<"UA7B6">>, UA7B9 |-> <<"UA7B8">>,
     UA7BB |-> <<"UA7BA">>, UA7BD |-> <<"UA7BC">>, UA7BF |-> <<"UA7BE">>,
     UA7C1 |-> <<"UA7C0">>, UA7C3 |-> <<"UA7C2">>, UA7C8 |-> <<"UA7C7">>,
     UA7CA |-> <<"UA7C9">>, UA7D1 |-> <<"UA7D0">>, UA7D7 |-> <<"UA7D6">>,
     UA7D9 |-> <<"UA7D8">>, UA7F6 |-> <<"UA7F5">>, UAB53 |-> <<"UA7B3">>,
     UAB70 |-> <<"U13A0">>, UAB71 |-> <<"U13A1">>, UAB72 |-> <<"U13A2">>,
     UAB73 |-> <<"U13A3">>, UAB74 |-> <<"U13A4">>, UAB75 |-> <<"U13A5">>,
     UAB76 |-> <<"U13A6">>, UAB77 |-> <<"U13A7">>, UAB78 |-> <<"U13A8">>,
     UAB79 |-> <<"U13A9">>, UAB7A |-> <<"U13AA">>, UAB7B |-> <<"U13AB">>,
     UAB7C |-> <<"U13AC">>, UAB7D |-> <<"U13AD">>, UAB7E |-> <<"U13AE">>,
     UAB7F |-> <<"U13AF">>, UAB80 |-> <<"U13B0">>, UAB81 |-> <<"U13B1">>,
     UAB82 |-> <<"U13B2">>, UAB83 |-> <<"U13B3">>, UAB84 |-> <<"U13B4">>,
     UAB85 |-> <<"U13B5">>, UAB86 |-> <<"U13B6">>, UAB87 |-> <<"U13B7">>,
     UAB88 |-> <<"U13B8">>, UAB89 |-> <<"U13B9">>, UAB8A |-> <<"U13BA">>,
     UAB8B |-> <<"U13BB">>, UAB8C |-> <<"U13BC">>, UAB8D |-> <<"U13BD">>,
     UAB8E |-> <<"U13BE">>, UAB8F |-> <<"U13BF">>, UAB90 |-> <<"U13C0">>,
     UAB91 |-> <<"U13C1">>, UAB92 |-> <<"U13C2">>, UAB93 |-> <<"U13C3">>,
     UAB94 |-> <<"U13C4">>, UAB95 |-> <<"U13C5">>, UAB96 |-> <<"U13C6">>,
     UAB97 |-> <<"U13C7">>, UAB98 |-> <<"U13C8">>, UAB99 |-> <<"U13C9">>,
     UAB9A |-> <<"U13CA">>, UAB9B |-> <<"U13CB">>, UAB9C |-> <<"U13CC">>,
     UAB9D |-> <<"U13CD">>, UAB9E |-> <<"U13CE">>, UAB9F |-> <<"U13CF">>,
     UABA0 |-> <<"U13D0">>, UABA1 |-> <<"U13D1">>, UABA2 |-> <<"U13D2">>,
     UABA3 |-> <<"U13D3">>, UABA4 |-> <<"U13D4">>, UABA5 |-> <<"U13D5">>,
     UABA6 |-> <<"U13D6">>, UABA7 |-> <<"U13D7">>, UABA8 |-> <<"U13D8">>,
     UABA9 |-> <<"U13D9">>, UABAA |-> <<"U13DA">>, UABAB |-> <<"U13DB">>,
     UABAC |-> <<"U13DC">>, UABAD |-> <<"U13DD">>, UABAE |-> <<"U13DE">>,
     UABAF |-> <<"U13DF">>, UABB0 |-> <<"U13E0">>, UABB1 |-> <<"U13E1">>,
     UABB2 |-> <<"U13E2">>, UABB3 |-> <<"U13E3">>, UABB4 |-> <<"U13E4">>,
     UABB5 |-> <<"U13E5">>, UABB6 |-> <<"U13E6">>, UABB7 |-> <<"U13E7">>,
     UABB8 |-> <<"U13E8">>, UABB9 |-> <<"U13E9">>, UABBA |-> <<"U13EA">>,
     UABBB |-> <<"U13EB">>, UABBC |-> <<"U13EC">>, UABBD |-> <<"U13ED">>,
     UABBE |-> <<"U13EE">>, UABBF |-> <<"U13EF">>, UFB00 |-> <<"F", "F">>,
     UFB01 |-> <<"F", "I">>, UFB02 |-> <<"F", "L">>,
     UFB03 |-> <<"F", "F", "I">>, UFB04 |-> <<"F", "F", "L">>,
     UFB05 |-> <<"S", "T">>, UFB06 |-> <<"S", "T">>,
     UFB13 |-> <<"U0544", "U0546">>, UFB14 |-> <<"U0544", "U0535">>,
     UFB15 |-> <<"U0544", "U053B">>, UFB16 |-> <<"U054E", "U0546">>,
     UFB17 |-> <<"U0544", "U053D">>, UFF41 |-> <<"UFF21">>,
     UFF42 |-> <<"UFF22">>, UFF43 |-> <<"UFF23">>, UFF44 |-> <<"UFF24">>,
     UFF45 |-> <<"UFF25">>, UFF46 |-> <<"UFF26">>, UFF47 |-> <<"UFF27">>,
     UFF48 |-> <<"UFF28">>, UFF49 |-> <<"UFF29">>, UFF4A |-> <<"UFF2A">>,
     UFF4B |-> <<"UFF2B">>, UFF4C |-> <<"UFF2C">>, UFF4D |-> <<"UFF2D">>,
     UFF4E |-> <<"UFF2E">>, UFF4F |-> <<"UFF2F">>, UFF50 |-> <<"UFF30">>,
     UFF51 |-> <<"UFF31">>, UFF52 |-> <<"UFF32">>, UFF53 |-> <<"UFF33">>,
     UFF54 |-> <<"UFF34">>, UFF55 |-> <<"UFF35">>, UFF56 |-> <<"UFF36">>,
     UFF57 |-> <<"UFF37">>, UFF58 |-> <<"UFF38">>, UFF59 |-> <<"UFF39">>,
     UFF5A |-> <<"UFF3A">>, U10428 |-> <<"U10400">>, U10429 |-> <<"U10401">>,
     U1042A |-> <<"U10402">>, U1042B |-> <<"U10403">>,
     U1042C |-> <<"U10404">>, U1042D |-> <<"U10405">>,
     U1042E |-> <<"U10406">>, U1042F |-> <<"U10407">>,
     U10430 |-> <<"U10408">>, U10431 |-> <<"U10409">>,
     U10432 |-> <<"U1040A">>, U10433 |-> <<"U1040B">>,
     U10434 |-> <<"U1040C">>, U10435 |-> <<"U1040D">>,
     U10436 |-> <<"U1040E">>, U10437 |-> <<"U1040F">>,
     U10438 |-> <<"U10410">>, U10439 |-> <<"U10411">>,
     U1043A |-> <<"U10412">>, U1043B |-> <<"U10413">>,
     U1043C |-> <<"U10414">>, U1043D |-> <<"U10415">>,
     U1043E |-> <<"U10416">>, U1043F |-> <<"U10417">>,
     U10440 |-> <<"U10418">>, U10441 |-> <<"U10419">>,
     U10442 |-> <<"U1041A">>, U10443 |-> <<"U1041B">>,
     U10444 |-> <<"U1041C">>, U10445 |-> <<"U1041D">>,
     U10446 |-> <<"U1041E">>, U10447 |-> <<"U1041F">>,
     U10448 |-> <<"U10420">>, U10449 |-> <<"U10421">>,
     U1044A |-> <<"U10422">>, U1044B |-> <<"U10423">>,
     U1044C |-> <<"U10424">>, U1044D |-> <<"U10425">>,
     U1044E |-> <<"U10426">>, U1044F |-> <<"U10427">>,
     U104D8 |-> <<"U104B0">>, U104D9 |-> <<"U104B1">>,
     U104DA |-> <<"U104B2">>, U104DB |-> <<"U104B3">>,
     U104DC |-> <<"U104B4">>, U104DD |-> <<"U104B5">>,
     U104DE |-> <<"U104B6">>, U104DF |-> <<"U104B7">>,
     U104E0 |-> <<"U104B8">>, U104E1 |-> <<"U104B9">>,
     U104E2 |-> <<"U104BA">>, U104E3 |-> <<"U104BB">>,
     U104E4 |-> <<"U104BC">>, U104E5 |-> <<"U104BD">>,
     U104E6 |-> <<"U104BE">>, U104E7 |-> <<"U104BF">>,
     U104E8 |-> <<"U104C0">>, U104E9 |-> <<"U104C1">>,
     U104EA |-> <<"U104C2">>, U104EB |-> <<"U104C3">>,
     U104EC |-> <<"U104C4">>, U104ED |-> <<"U104C5">>,
     U104EE |-> <<"U104C6">>, U104EF |-> <<"U104C7">>,
     U104F0 |-> <<"U104C8">>, U104F1 |-> <<"U104C9">>,
     U104F2 |-> <<"U104CA">>, U104F3 |-> <<"U104CB">>,
     U104F4 |-> <<"U104CC">>, U104F5 |-> <<"U104CD">>,
     U104F6 |-> <<"U104CE">>, U104F7 |-> <<"U104CF">>,
     U104F8 |-> <<"U104D0">>, U104F9 |-> <<"U104D1">>,
     U104FA |-> <<"U104D2">>, U104FB |-> <<"U104D3">>,
     U10597 |-> <<"U10570">>, U10598 |-> <<"U10571">>,
     U10599 |-> <<"U10572">>, U1059A |-> <<"U10573">>,
     U1059B |-> <<"U10574">>, U1059C |-> <<"U10575">>,
     U1059D |-> <<"U10576">>, U1059E |-> <<"U10577">>,
     U1059F |-> <<"U10578">>, U105A0 |-> <<"U10579">>,
     U105A1 |-> <<"U1057A">>, U105A3 |-> <<"U1057C">>,
     U105A4 |-> <<"U1057D">>, U105A5 |-> <<"U1057E">>,
     U105A6 |-> <<"U1057F">>, U105A7 |-> <<"U10580">>,
     U105A8 |-> <<"U10581">>, U105A9 |-> <<"U10582">>,
     U105AA |-> <<"U10583">>, U105AB |-> <<"U10584">>,
     U105AC |-> <<"U10585">>, U105AD |-> <<"U10586">>,
     U105AE |-> <<"U10587">>, U105AF |-> <<"U10588">>,
     U105B0 |-> <<"U10589">>, U105B1 |-> <<"U1058A">>,
     U105B3 |-> <<"U1058C">>, U105B4 |-> <<"U1058D">>,
     U105B5 |-> <<"U1058E">>, U105B6 |-> <<"U1058F">>,
     U105B7 |-> <<"U10590">>, U105B8 |-> <<"U10591">>,
     U105B9 |-> <<"U10592">>, U105BB |-> <<"U10594">>,
     U105BC |-> <<"U10595">>, U10CC0 |-> <<"U10C80">>,
     U10CC1 |-> <<"U10C81">>, U10CC2 |-> <<"U10C82">>,
     U10CC3 |-> <<"U10C83">>, U10CC4 |-> <<"U10C84">>,
     U10CC5 |-> <<"U10C85">>, U10CC6 |-> <<"U10C86">>,
     U10CC7 |-> <<"U10C87">>, U10CC8 |-> <<"U10C88">>,
     U10CC9 |-> <<"U10C89">>, U10CCA |-> <<"U10C8A">>,
     U10CCB |-> <<"U10C8B">>, U10CCC |-> <<"U10C8C">>,
     U10CCD |-> <<"U10C8D">>, U10CCE |-> <<"U10C8E">>,
     U10CCF |-> <<"U10C8F">>, U10CD0 |-> <<"U10C90">>,
     U10CD1 |-> <<"U10C91">>, U10CD2 |-> <<"U10C92">>,
     U10CD3 |-> <<"U10C93">>, U10CD4 |-> <<"U10C94">>,
     U10CD5 |-> <<"U10C95">>, U10CD6 |-> <<"U10C96">>,
     U10CD7 |-> <<"U10C97">>, U10CD8 |-> <<"U10C98">>,
     U10CD9 |-> <<"U10C99">>, U10CDA |-> <<"U10C9A">>,
     U10CDB |-> <<"U10C9B">>, U10CDC |-> <<"U10C9C">>,
     U10CDD |-> <<"U10C9D">>, U10CDE |-> <<"U10C9E">>,
     U10CDF |-> <<"U10C9F">>, U10CE0 |-> <<"U10CA0">>,
     U10CE1 |-> <<"U10CA1">>, U10CE2 |-> <<"U10CA2">>,
     U10CE3 |-> <<"U10CA3">>, U10CE4 |-> <<"U10CA4">>,
     U10CE5 |-> <<"U10CA5">>, U10CE6 |-> <<"U10CA6">>,
     U10CE7 |-> <<"U10CA7">>, U10CE8 |-> <<"U10CA8">>,
     U10CE9 |-> <<"U10CA9">>, U10CEA |-> <<"U10CAA">>,
     U10CEB |-> <<"U10CAB">>, U10CEC |-> <<"U10CAC">>,
     U10CED |-> <<"U10CAD">>, U10CEE |-> <<"U10CAE">>,
     U10CEF |-> <<"U10CAF">>, U10CF0 |-> <<"U10CB0">>,
     U10CF1 |-> <<"U10CB1">>, U10CF2 |-> <<"U10CB2">>,
     U118C0 |-> <<"U118A0">>, U118C1 |-> <<"U118A1">>,
     U118C2 |-> <<"U118A2">>, U118C3 |-> <<"U118A3">>,
     U118C4 |-> <<"U118A4">>, U118C5 |-> <<"U118A5">>,
     U118C6 |-> <<"U118A6">>, U118C7 |-> <<"U118A7">>,
     U118C8 |-> <<"U118A8">>, U118C9 |-> <<"U118A9">>,
     U118CA |-> <<"U118AA">>, U118CB |-> <<"U118AB">>,
     U118CC |-> <<"U118AC">>, U118CD |-> <<"U118AD">>,
     U118CE |-> <<"U118AE">>, U118CF |-> <<"U118AF">>,
     U118D0 |-> <<"U118B0">>, U118D1 |-> <<"U118B1">>,
     U118D2 |-> <<"U118B2">>, U118D3 |-> <<"U118B3">>,
     U118D4 |-> <<"U118B4">>, U118D5 |-> <<"U118B5">>,
     U118D6 |-> <<"U118B6">>, U118D7 |-> <<"U118B7">>,
     U118D8 |-> <<"U118B8">>, U118D9 |-> <<"U118B9">>,
     U118DA |-> <<"U118BA">>, U118DB |-> <<"U118BB">>,
     U118DC |-> <<"U118BC">>, U118DD |-> <<"U118BD">>,
     U118DE |-> <<"U118BE">>, U118DF |-> <<"U118BF">>,
     U16E60 |-> <<"U16E40">>, U16E61 |-> <<"U16E41">>,
     U16E62 |-> <<"U16E42">>, U16E63 |-> <<"U16E43">>,
     U16E64 |-> <<"U16E44">>, U16E65 |-> <<"U16E45">>,
     U16E66 |-> <<"U16E46">>, U16E67 |-> <<"U16E47">>,
     U16E68 |-> <<"U16E48">>, U16E69 |-> <<"U16E49">>,
     U16E6A |-> <<"U16E4A">>, U16E6B |-> <<"U16E4B">>,
     U16E6C |-> <<"U16E4C">>, U16E6D |-> <<"U16E4D">>,
     U16E6E |-> <<"U16E4E">>, U16E6F |-> <<"U16E4F">>,
     U16E70 |-> <<"U16E50">>, U16E71 |-> <<"U16E51">>,
     U16E72 |-> <<"U16E52">>, U16E73 |-> <<"U16E53">>,
     U16E74 |-> <<"U16E54">>, U16E75 |-> <<"U16E55">>,
     U16E76 |-> <<"U16E56">>, U16E77 |-> <<"U16E57">>,
     U16E78 |-> <<"U16E58">>, U16E79 |-> <<"U16E59">>,
     U16E7A |-> <<"U16E5A">>, U16E7B |-> <<"U16E5B">>,
     U16E7C |-> <<"U16E5C">>, U16E7D |-> <<"U16E5D">>,
     U16E7E |-> <<"U16E5E">>, U16E7F |-> <<"U16E5F">>,
     U1E922 |-> <<"U1E900">>, U1E923 |-> <<"U1E901">>,
     U1E924 |-> <<"U1E902">>, U1E925 |-> <<"U1E903">>,
     U1E926 |-> <<"U1E904">>, U1E927 |-> <<"U1E905">>,
     U1E928 |-> <<"U1E906">>, U1E929 |-> <<"U1E907">>,
     U1E92A |-> <<"U1E908">>, U1E92B |-> <<"U1E909">>,
     U1E92C |-> <<"U1E90A">>, U1E92D |-> <<"U1E90B">>,
     U1E92E |-> <<"U1E90C">>, U1E92F |-> <<"U1E90D">>,
     U1E930 |-> <<"U1E90E">>, U1E931 |-> <<"U1E90F">>,
     U1E932 |-> <<"U1E910">>, U1E933 |-> <<"U1E911">>,
     U1E934 |-> <<"U1E912">>, U1E935 |-> <<"U1E913">>,
     U1E936 |-> <<"U1E914">>, U1E937 |-> <<"U1E915">>,
     U1E938 |-> <<"U1E916">>, U1E939 |-> <<"U1E917">>,
     U1E93A |-> <<"U1E918">>, U1E93B |-> <<"U1E919">>,
     U1E93C |-> <<"U1E91A">>, U1E93D |-> <<"U1E91B">>,
     U1E93E |-> <<"U1E91C">>, U1E93F |-> <<"U1E91D">>,
     U1E940 |-> <<"U1E91E">>, U1E941 |-> <<"U1E91F">>,
     U1E942 |-> <<"U1E920">>, U1E943 |-> <<"U1E921">>]

CasedChars == DOMAIN UpperTable

\* str.upper() on one character: one character or, for some, several
UpperChar(c) == IF c \in CasedChars THEN UpperTable[c] ELSE <<c>>

\* str.upper()
RECURSIVE Upper(_)
Upper(s) == IF s = <<>> THEN <<>> ELSE UpperChar(Head(s)) \o Upper(Tail(s))

RECURSIVE LStripOf(_, _)
LStripOf(s, ws) == IF s # <<>> /\ Head(s) \in ws THEN LStripOf(Tail(s), ws) ELSE s

RECURSIVE RStripOf(_, _)
RStripOf(s, ws) ==
    IF s # <<>> /\ s[Len(s)] \in ws
    THEN RStripOf(SubSeq(s, 1, Len(s) - 1), ws)
    ELSE s

LStrip(s) == LStripOf(s, Whitespace)
RStrip(s) == RStripOf(s, Whitespace)

\* str.strip()
Strip(s) == RStrip(LStrip(s))

\* str.startswith(prefix)
StartsWith(s, prefix) ==
    Len(s) >= Len(prefix) /\ SubSeq(s, 1, Len(prefix)) = prefix

\* a join that writes the separator after every part, the last included
RECURSIVE JoinTrailing(_, _)
JoinTrailing(parts, sep) ==
    IF parts = <<>> THEN <<>>
    ELSE parts[1] \o sep \o JoinTrailing(Tail(parts), sep)

\* sep.join(parts)
RECURSIVE Join(_, _)
Join(parts, sep) ==
    IF parts = <<>> THEN <<>>
    ELSE IF Len(parts) = 1 THEN parts[1]
    ELSE parts[1] \o sep \o Join(Tail(parts), sep)

RECURSIVE NatToText(_)
NatToText(n) ==
    IF n < 10 THEN <<DigitChars[n + 1]>>
    ELSE NatToText(n \div 10) \o <<DigitChars[(n % 10) + 1]>>

\* str(x) for the values the driver returns
Str(v) ==
    IF v.t = "str" THEN v.s
    ELSE IF v.n < 0 THEN <<"-">> \o NatToText(0 - v.n)
    ELSE NatToText(v.n)

\* the decimal digits outside ASCII that int() reads, with their values
DigitTable ==
    [U0660 |-> 0, U0661 |-> 1, U0662 |-> 2, U0663 |-> 3, U0664 |-> 4,
     U0665 |-> 5, U0666 |-> 6, U0667 |-> 7, U0668 |-> 8, U0669 |-> 9,
     U06F0 |-> 0, U06F1 |-> 1, U06F2 |-> 2, U06F3 |-> 3, U06F4 |-> 4,
     U06F5 |-> 5, U06F6 |-> 6, U06F7 |-> 7, U06F8 |-> 8, U06F9 |-> 9,
     U07C0 |-> 0, U07C1 |-> 1, U07C2 |-> 2, U07C3 |-> 3, U07C4 |-> 4,
     U07C5 |-> 5, U07C6 |-> 6, U07C7 |-> 7, U07C8 |-> 8, U07C9 |-> 9,
     U0966 |-> 0, U0967 |-> 1, U0968 |-> 2, U0969 |-> 3, U096A |-> 4,
     U096B |-> 5, U096C |-> 6, U096D |-> 7, U096E |-> 8, U096F |-> 9,
     U09E6 |-> 0, U09E7 |-> 1, U09E8 |-> 2, U09E9 |-> 3, U09EA |-> 4,
     U09EB |-> 5, U09EC |-> 6, U09ED |-> 7, U09EE |-> 8, U09EF |-> 9,
     U0A66 |-> 0, U0A67 |-> 1, U0A68 |-> 2, U0A69 |-> 3, U0A6A |-> 4,
     U0A6B |-> 5, U0A6C |-> 6, U0A6D |-> 7, U0A6E |-> 8, U0A6F |-> 9,
     U0AE6 |-> 0, U0AE7 |-> 1, U0AE8 |-> 2, U0AE9 |-> 3, U0AEA |-> 4,
     U0AEB |-> 5, U0AEC |-> 6, U0AED |-> 7, U0AEE |-> 8, U0AEF |-> 9,
     U0B66 |-> 0, U0B67 |-> 1, U0B68 |-> 2, U0B69 |-> 3, U0B6A |-> 4,
     U0B6B |-> 5, U0B6C |-> 6, U0B6D |-> 7, U0B6E |-> 8, U0B6F |-> 9,
     U0BE6 |-> 0, U0BE7 |-> 1, U0BE8 |-> 2, U0BE9 |-> 3, U0BEA |-> 4,
     U0BEB |-> 5, U0BEC |-> 6, U0BED |-> 7, U0BEE |-> 8, U0BEF |-> 9,
     U0C66 |-> 0, U0C67 |-> 1, U0C68 |-> 2, U0C69 |-> 3, U0C6A |-> 4,
     U0C6B |-> 5, U0C6C |-> 6, U0C6D |-> 7, U0C6E |-> 8, U0C6F |-> 9,
     U0CE6 |-> 0, U0CE7 |-> 1, U0CE8 |-> 2, U0CE9 |-> 3, U0CEA |-> 4,
     U0CEB |-> 5, U0CEC |-> 6, U0CED |-> 7, U0CEE |-> 8, U0CEF |-> 9,
     U0D66 |-> 0, U0D67 |-> 1, U0D68 |-> 2, U0D69 |-> 3, U0D6A |-> 4,
     U0D6B |-> 5, U0D6C |-> 6, U0D6D |-> 7, U0D6E |-> 8, U0D6F |-> 9,
     U0DE6 |-> 0, U0DE7 |-> 1, U0DE8 |-> 2, U0DE9 |-> 3, U0DEA |-> 4,
     U0DEB |-> 5, U0DEC |-> 6, U0DED |-> 7, U0DEE |-> 8, U0DEF |-> 9,
     U0E50 |-> 0, U0E51 |-> 1, U0E52 |-> 2, U0E53 |-> 3, U0E54 |-> 4,
     U0E55 |-> 5, U0E56 |-> 6, U0E57 |-> 7, U0E58 |-> 8, U0E59 |-> 9,
     U0ED0 |-> 0, U0ED1 |-> 1, U0ED2 |-> 2, U0ED3 |-> 3, U0ED4 |-> 4,
     U0ED5 |-> 5, U0ED6 |-> 6, U0ED7 |-> 7, U0ED8 |-> 8, U0ED9 |-> 9,
     U0F20 |-> 0, U0F21 |-> 1, U0F22 |-> 2, U0F23 |-> 3, U0F24 |-> 4,
     U0F25 |-> 5, U0F26 |-> 6, U0F27 |-> 7, U0F28 |-> 8, U0F29 |-> 9,
     U1040 |-> 0, U1041 |-> 1, U1042 |-> 2, U1043 |-> 3, U1044 |-> 4,
     U1045 |-> 5, U1046 |-> 6, U1047 |-> 7, U1048 |-> 8, U1049 |-> 9,
     U1090 |-> 0, U1091 |-> 1, U1092 |-> 2, U1093 |-> 3, U1094 |-> 4,
     U1095 |-> 5, U1096 |-> 6, U1097 |-> 7, U1098 |-> 8, U1099 |-> 9,
     U17E0 |-> 0, U17E1 |-> 1, U17E2 |-> 2, U17E3 |-> 3, U17E4 |-> 4,
     U17E5 |-> 5, U17E6 |-> 6, U17E7 |-> 7, U17E8 |-> 8, U17E9 |-> 9,
     U1810 |-> 0, U1811 |-> 1, U1812 |-> 2, U1813 |-> 3, U1814 |-> 4,
     U1815 |-> 5, U1816 |-> 6, U1817 |-> 7, U1818 |-> 8, U1819 |-> 9,
     U1946 |-> 0, U1947 |-> 1, U1948 |-> 2, U1949 |-> 3, U194A |-> 4,
     U194B |-> 5, U194C |-> 6, U194D |-> 7, U194E |-> 8, U194F |-> 9,
     U19D0 |-> 0, U19D1 |-> 1, U19D2 |-> 2, U19D3 |-> 3, U19D4 |-> 4,
     U19D5 |-> 5, U19D6 |-> 6, U19D7 |-> 7, U19D8 |-> 8, U19D9 |-> 9,
     U1A80 |-> 0, U1A81 |-> 1, U1A82 |-> 2, U1A83 |-> 3, U1A84 |-> 4,
     U1A85 |-> 5, U1A86 |-> 6, U1A87 |-> 7, U1A88 |-> 8, U1A89 |-> 9,
     U1A90 |-> 0, U1A91 |-> 1, U1A92 |-> 2, U1A93 |-> 3, U1A94 |-> 4,
     U1A95 |-> 5, U1A96 |-> 6, U1A97 |-> 7, U1A98 |-> 8, U1A99 |-> 9,
     U1B50 |-> 0, U1B51 |-> 1, U1B52 |-> 2, U1B53 |-> 3, U1B54 |-> 4,
     U1B55 |-> 5, U1B56 |-> 6, U1B57 |-> 7, U1B58 |-> 8, U1B59 |-> 9,
     U1BB0 |-> 0, U1BB1 |-> 1, U1BB2 |-> 2, U1BB3 |-> 3, U1BB4 |-> 4,
     U1BB5 |-> 5, U1BB6 |-> 6, U1BB7 |-> 7, U1BB8 |-> 8, U1BB9 |-> 9,
     U1C40 |-> 0, U1C41 |-> 1, U1C42 |-> 2, U1C43 |-> 3, U1C44 |-> 4,
     U1C45 |-> 5, U1C46 |-> 6, U1C47 |-> 7, U1C48 |-> 8, U1C49 |-> 9,
     U1C50 |-> 0, U1C51 |-> 1, U1C52 |-> 2, U1C53 |-> 3, U1C54 |-> 4,
     U1C55 |-> 5, U1C56 |-> 6, U1C57 |-> 7, U1C58 |-> 8, U1C59 |-> 9,
     UA620 |-> 0, UA621 |-> 1, UA622 |-> 2, UA623 |-> 3, UA624 |-> 4,
     UA625 |-> 5, UA626 |-> 6, UA627 |-> 7, UA628 |-> 8, UA629 |-> 9,
     UA8D0 |-> 0, UA8D1 |-> 1, UA8D2 |-> 2, UA8D3 |-> 3, UA8D4 |-> 4,
     UA8D5 |-> 5, UA8D6 |-> 6, UA8D7 |-> 7, UA8D8 |-> 8, UA8D9 |-> 9,
     UA900 |-> 0, UA901 |-> 1, UA902 |-> 2, UA903 |-> 3, UA904 |-> 4,
     UA905 |-> 5, UA906 |-> 6, UA907 |-> 7, UA908 |-> 8, UA909 |-> 9,
     UA9D0 |-> 0, UA9D1 |-> 1, UA9D2 |-> 2, UA9D3 |-> 3, UA9D4 |-> 4,
     UA9D5 |-> 5, UA9D6 |-> 6, UA9D7 |-> 7, UA9D8 |-> 8, UA9D9 |-> 9,
     UA9F0 |-> 0, UA9F1 |-> 1, UA9F2 |-> 2, UA9F3 |-> 3, UA9F4 |-> 4,
     UA9F5 |-> 5, UA9F6 |-> 6, UA9F7 |-> 7, UA9F8 |-> 8, UA9F9 |-> 9,
     UAA50 |-> 0, UAA51 |-> 1, UAA52 |-> 2, UAA53 |-> 3, UAA54 |-> 4,
     UAA55 |-> 5, UAA56 |-> 6, UAA57 |-> 7, UAA58 |-> 8, UAA59 |-> 9,
     UABF0 |-> 0, UABF1 |-> 1, UABF2 |-> 2, UABF3 |-> 3, UABF4 |-> 4,
     UABF5 |-> 5, UABF6 |-> 6, UABF7 |-> 7, UABF8 |-> 8, UABF9 |-> 9,
     UFF10 |-> 0, UFF11 |-> 1, UFF12 |-> 2, UFF13 |-> 3, UFF14 |-> 4,
     UFF15 |-> 5, UFF16 |-> 6, UFF17 |-> 7, UFF18 |-> 8, UFF19 |-> 9,
     U104A0 |-> 0, U104A1 |-> 1, U104A2 |-> 2, U104A3 |-> 3, U104A4 |-> 4,
     U104A5 |-> 5, U104A6 |-> 6, U104A7 |-> 7, U104A8 |-> 8, U104A9 |-> 9,
     U10D30 |-> 0, U10D31 |-> 1, U10D32 |-> 2, U10D33 |-> 3, U10D34 |-> 4,
     U10D35 |-> 5, U10D36 |-> 6, U10D37 |-> 7, U10D38 |-> 8, U10D39 |-> 9,
     U11066 |-> 0, U11067 |-> 1, U11068 |-> 2, U11069 |-> 3, U1106A |-> 4,
     U1106B |-> 5, U1106C |-> 6, U1106D |-> 7, U1106E |-> 8, U1106F |-> 9,
     U110F0 |-> 0, U110F1 |-> 1, U110F2 |-> 2, U110F3 |-> 3, U110F4 |-> 4,
     U110F5 |-> 5, U110F6 |-> 6, U110F7 |-> 7, U110F8 |-> 8, U110F9 |-> 9,
     U11136 |-> 0, U11137 |-> 1, U11138 |-> 2, U11139 |-> 3, U1113A |-> 4,
     U1113B |-> 5, U1113C |-> 6, U1113D |-> 7, U1113E |-> 8, U1113F |-> 9,
     U111D0 |-> 0, U111D1 |-> 1, U111D2 |-> 2, U111D3 |-> 3, U111D4 |-> 4,
     U111D5 |-> 5, U111D6 |-> 6, U111D7 |-> 7, U111D8 |-> 8, U111D9 |-> 9,
     U112F0 |-> 0, U112F1 |-> 1, U112F2 |-> 2, U112F3 |-> 3, U112F4 |-> 4,
     U112F5 |-> 5, U112F6 |-> 6, U112F7 |-> 7, U112F8 |-> 8, U112F9 |-> 9,
     U11450 |-> 0, U11451 |-> 1, U11452 |-> 2, U11453 |-> 3, U11454 |-> 4,
     U11455 |-> 5, U11456 |-> 6, U11457 |-> 7, U11458 |-> 8, U11459 |-> 9,
     U114D0 |-> 0, U114D1 |-> 1, U114D2 |-> 2, U114D3 |-> 3, U114D4 |-> 4,
     U114D5 |-> 5, U114D6 |-> 6, U114D7 |-> 7, U114D8 |-> 8, U114D9 |-> 9,
     U11650 |-> 0, U11651 |-> 1, U11652 |-> 2, U11653 |-> 3, U11654 |-> 4,
     U11655 |-> 5, U11656 |-> 6, U11657 |-> 7, U11658 |-> 8, U11659 |-> 9,
     U116C0 |-> 0, U116C1 |-> 1, U116C2 |-> 2, U116C3 |-> 3, U116C4 |-> 4,
     U116C5 |-> 5, U116C6 |-> 6, U116C7 |-> 7, U116C8 |-> 8, U116C9 |-> 9,
     U11730 |-> 0, U11731 |-> 1, U11732 |-> 2, U11733 |-> 3, U11734 |-> 4,
     U11735 |-> 5, U11736 |-> 6, U11737 |-> 7, U11738 |-> 8, U11739 |-> 9,
     U118E0 |-> 0, U118E1 |-> 1, U118E2 |-> 2, U118E3 |-> 3, U118E4 |-> 4,
     U118E5 |-> 5, U118E6 |-> 6, U118E7 |-> 7, U118E8 |-> 8, U118E9 |-> 9,
     U11950 |-> 0, U11951 |-> 1, U11952 |-> 2, U11953 |-> 3, U11954 |-> 4,
     U11955 |-> 5, U11956 |-> 6, U11957 |-> 7, U11958 |-> 8, U11959 |-> 9,
     U11C50 |-> 0, U11C51 |-> 1, U11C52 |-> 2, U11C53 |-> 3, U11C54 |-> 4,
     U11C55 |-> 5, U11C56 |-> 6, U11C57 |-> 7, U11C58 |-> 8, U11C59 |-> 9,
     U11D50 |-> 0, U11D51 |-> 1, U11D52 |-> 2, U11D53 |-> 3, U11D54 |-> 4,
     U11D55 |-> 5, U11D56 |-> 6, U11D57 |-> 7, U11D58 |-> 8, U11D59 |-> 9,
     U11DA0 |-> 0, U11DA1 |-> 1, U11DA2 |-> 2, U11DA3 |-> 3, U11DA4 |-> 4,
     U11DA5 |-> 5, U11DA6 |-> 6, U11DA7 |-> 7, U11DA8 |-> 8, U11DA9 |-> 9,
     U16A60 |-> 0, U16A61 |-> 1, U16A62 |-> 2, U16A63 |-> 3, U16A64 |-> 4,
     U16A65 |-> 5, U16A66 |-> 6, U16A67 |-> 7, U16A68 |-> 8, U16A69 |-> 9,
     U16AC0 |-> 0, U16AC1 |-> 1, U16AC2 |-> 2, U16AC3 |-> 3, U16AC4 |-> 4,
     U16AC5 |-> 5, U16AC6 |-> 6, U16AC7 |-> 7, U16AC8 |-> 8, U16AC9 |-> 9,
     U16B50 |-> 0, U16B51 |-> 1, U16B52 |-> 2, U16B53 |-> 3, U16B54 |-> 4,
     U16B55 |-> 5, U16B56 |-> 6, U16B57 |-> 7, U16B58 |-> 8, U16B59 |-> 9,
     U1D7CE |-> 0, U1D7CF |-> 1, U1D7D0 |-> 2, U1D7D1 |-> 3, U1D7D2 |-> 4,
     U1D7D3 |-> 5, U1D7D4 |-> 6, U1D7D5 |-> 7, U1D7D6 |-> 8, U1D7D7 |-> 9,
     U1D7D8 |-> 0, U1D7D9 |-> 1, U1D7DA |-> 2, U1D7DB |-> 3, U1D7DC |-> 4,
     U1D7DD |-> 5, U1D7DE |-> 6, U1D7DF |-> 7, U1D7E0 |-> 8, U1D7E1 |-> 9,
     U1D7E2 |-> 0, U1D7E3 |-> 1, U1D7E4 |-> 2, U1D7E5 |-> 3, U1D7E6 |-> 4,
     U1D7E7 |-> 5, U1D7E8 |-> 6, U1D7E9 |-> 7, U1D7EA |-> 8, U1D7EB |-> 9,
     U1D7EC |-> 0, U1D7ED |-> 1, U1D7EE |-> 2, U1D7EF |-> 3, U1D7F0 |-> 4,
     U1D7F1 |-> 5, U1D7F2 |-> 6, U1D7F3 |-> 7, U1D7F4 |-> 8, U1D7F5 |-> 9,
     U1D7F6 |-> 0, U1D7F7 |-> 1, U1D7F8 |-> 2, U1D7F9 |-> 3, U1D7FA |-> 4,
     U1D7FB |-> 5, U1D7FC |-> 6, U1D7FD |-> 7, U1D7FE |-> 8, U1D7FF |-> 9,
     U1E140 |-> 0, U1E141 |-> 1, U1E142 |-> 2, U1E143 |-> 3, U1E144 |-> 4,
     U1E145 |-> 5, U1E146 |-> 6, U1E147 |-> 7, U1E148 |-> 8, U1E149 |-> 9,
     U1E2F0 |-> 0, U1E2F1 |-> 1, U1E2F2 |-> 2, U1E2F3 |-> 3, U1E2F4 |-> 4,
     U1E2F5 |-> 5, U1E2F6 |-> 6, U1E2F7 |-> 7, U1E2F8 |-> 8, U1E2F9 |-> 9,
     U1E950 |-> 0, U1E951 |-> 1, U1E952 |-> 2, U1E953 |-> 3, U1E954 |-> 4,
     U1E955 |-> 5, U1E956 |-> 6, U1E957 |-> 7, U1E958 |-> 8, U1E959 |-> 9,
     U1FBF0 |-> 0, U1FBF1 |-> 1, U1FBF2 |-> 2, U1FBF3 |-> 3, U1FBF4 |-> 4,
     U1FBF5 |-> 5, U1FBF6 |-> 6, U1FBF7 |-> 7, U1FBF8 |-> 8, U1FBF9 |-> 9]

UnicodeDigits == DOMAIN DigitTable

IsDigit(c) == (\E i \in 1..10 : DigitChars[i] = c) \/ c \in UnicodeDigits

DigitValue(c) ==
    IF c \in UnicodeDigits THEN DigitTable[c]
    ELSE (CHOOSE i \in 1..10 : DigitChars[i] = c) - 1

RECURSIVE DigitsValue(_)
DigitsValue(s) ==
    IF s = <<>> THEN 0
    ELSE DigitsValue(SubSeq(s, 1, Len(s) - 1)) * 10 + DigitValue(s[Len(s)])

\* int(text): whitespace around the number, one sign, decimal digits of any
\* script, and single underscores between digits
ParseInt(s) ==
    LET body == RStripOf(LStripOf(s, IntWhitespace), IntWhitespace)
        signed == body # <<>> /\ Head(body) \in {"+", "-"}
        number == IF signed THEN Tail(body) ELSE body
        good == /\ number # <<>>
                /\ IsDigit(number[1])
                /\ IsDigit(number[Len(number)])
                /\ \A i \in 1..Len(number) :
                     \/ IsDigit(number[i])
                     \/ /\ number[i] = "_"
                        /\ IsDigit(number[i - 1])
                        /\ IsDigit(number[i + 1])
        digits == SelectSeq(number, IsDigit)
    IN  IF ~good THEN [ok |-> FALSE, v |-> PyNone]
        ELSE [ok |-> TRUE,
              v |-> PyInt(IF signed /\ Head(body) = "-"
                          THEN 0 - DigitsValue(digits)
                          ELSE DigitsValue(digits))]

----------------------------------------------------------------------------
(* Literals of the source *)

T_SHOW_DATABASES == <<"S", "H", "O", "W", " ", "D", "A", "T", "A", "B", "A", "S", "E", "S">>
T_SHOW_TIMESERIES == <<"S", "H", "O", "W", " ", "T", "I", "M", "E", "S", "E", "R", "I", "E", "S">>
T_SHOW_CHILD_PATHS == <<"S", "H", "O", "W", " ", "C", "H", "I", "L", "D", " ", "P", "A", "T", "H", "S">>
T_SHOW_CHILD_NODES == <<"S", "H", "O", "W", " ", "C", "H", "I", "L", "D", " ", "N", "O", "D", "E", "S">>
T_SHOW_DEVICES == <<"S", "H", "O", "W", " ", "D", "E", "V", "I", "C", "E", "S">>
T_COUNT_TIMESERIES == <<"C", "O", "U", "N", "T", " ", "T", "I", "M", "E", "S", "E", "R", "I", "E", "S">>
T_COUNT_NODES == <<"C", "O", "U", "N", "T", " ", "N", "O", "D", "E", "S">>
T_COUNT_DEVICES == <<"C", "O", "U", "N", "T", " ", "D", "E", "V", "I", "C", "E", "S">>
T_SELECT == <<"S", "E", "L", "E", "C", "T">>
T_DESCRIBE == <<"D", "E", "S", "C", "R", "I", "B", "E">>
T_SHOW == <<"S", "H", "O", "W">>
T_SHOW_TABLES == <<"S", "H", "O", "W", " ", "T", "A", "B", "L", "E", "S">>
T_DESC_ == <<"D", "E", "S", "C", " ">>
T_Tables_in_ == <<"T", "a", "b", "l", "e", "s", "_", "i", "n", "_">>
T_Time == <<"T", "i", "m", "e">>
T_tree == <<"t", "r", "e", "e">>
T_table == <<"t", "a", "b", "l", "e">>
T_127_0_0_1 == <<"1", "2", "7", ".", "0", ".", "0", ".", "1">>
T_root == <<"r", "o", "o", "t">>
T_test == <<"t", "e", "s", "t">>

max_pool_size == 5
wait_timeout_in_ms == 3000
DefaultPort == 6667

----------------------------------------------------------------------------
(* config.py: Config.from_env_arguments *)

Fields == {"host", "port", "user", "password", "database", "sql_dialect"}

FlagOf(f) ==
    CASE f = "host" -> "--host"
      [] f = "port" -> "--port"
      [] f = "user" -> "--user"
      [] f = "password" -> "--password"
      [] f = "database" -> "--database"
      [] f = "sql_dialect" -> "--sql-dialect"

EnvOf(f) ==
    CASE f = "host" -> "IOTDB_HOST"
      [] f = "port" -> "IOTDB_PORT"
      [] f = "user" -> "IOTDB_USER"
      [] f = "password" -> "IOTDB_PASSWORD"
      [] f = "database" -> "IOTDB_DATABASE"
      [] f = "sql_dialect" -> "IOTDB_SQL_DIALECT"

Flags == {FlagOf(f) : f \in Fields}
EnvNames == {EnvOf(f) : f \in Fields}

\* the type= of each add_argument
TypeOf(f) == IF f = "port" THEN "int" ELSE "str"

\* the hard-coded second argument of each os.getenv
DefaultOf(f) ==
    CASE f = "host" -> PyStr(T_127_0_0_1)
      [] f = "port" -> PyInt(DefaultPort)
      [] f = "user" -> PyStr(T_root)
      [] f = "password" -> PyStr(T_root)
      [] f = "database" -> PyStr(T_test)
      [] f = "sql_dialect" -> PyStr(T_table)

\* os.getenv(name, default)
getenv(env, name, default) ==
    IF env[name] # <<>> THEN PyStr(env[name][1]) ELSE default

\* argparse's type conversion of one string
Convert(type, v) == IF type = "int" THEN ParseInt(v.s) ELSE [ok |-> TRUE, v |-> v]

\* a parser whose string default (the environment's value) beats the flag
parse_arg_default_wins(type, given, default) ==
    IF default.t = "str" THEN Convert(type, default)
    ELSE IF given # <<>> THEN Convert(type, PyStr(given[1]))
    ELSE [ok |-> TRUE, v |-> default]

\* parser.add_argument(flag, type=, default=) followed by parse_args(): the
\* flag's value converted when the flag is given; otherwise the default,
\* converted only when it is a string
parse_arg(type, given, default) ==
    IF given # <<>> THEN Convert(type, PyStr(given[1]))
    ELSE IF default.t = "str" THEN Convert(type, default)
    ELSE [ok |-> TRUE, v |-> default]

from_env_arguments(args, env) ==
    LET parsed == [f \in Fields |->
                     parse_arg(TypeOf(f), args[FlagOf(f)],
                               getenv(env, EnvOf(f), DefaultOf(f)))]
    IN  [ok |-> \A f \in Fields : parsed[f].ok,
         config |-> [f \in Fields |-> parsed[f].v]]

NoConfig == [f \in Fields |-> PyNone]

----------------------------------------------------------------------------
(* server.py, module level: the pool and the tools of the dialect *)

TreeTools == {"metadata_query", "select_query"}
TableTools == {"read_query", "list_tables", "describe_table"}

NodeUrl(cfg) == Str(cfg["host"]) \o <<":">> \o Str(cfg["port"])

TreePool(cfg) ==
    [kind |-> "tree", node_urls |-> <<NodeUrl(cfg)>>,
     user |-> cfg["user"].s, password |-> cfg["password"].s,
     database |-> <<>>, size |-> max_pool_size, wait_ms |-> wait_timeout_in_ms]

\* database=None if len(config.database) == 0 else config.database
TablePool(cfg) ==
    [kind |-> "table", node_urls |-> <<NodeUrl(cfg)>>,
     user |-> cfg["user"].s, password |-> cfg["password"].s,
     database |-> IF Len(cfg["database"].s) = 0 THEN <<>> ELSE <<cfg["database"].s>>,
     size |-> MaxTableSessions, wait_ms |-> 0]

ModulePools(cfg) ==
    IF cfg["sql_dialect"] = PyStr(T_tree) THEN {TreePool(cfg)}
    ELSE IF cfg["sql_dialect"] = PyStr(T_table) THEN {TablePool(cfg)}
    ELSE {}

ModuleTools(cfg) ==
    IF cfg["sql_dialect"] = PyStr(T_tree) THEN TreeTools
    ELSE IF cfg["sql_dialect"] = PyStr(T_table) THEN TableTools
    ELSE {}

NoCall == [op |-> "none"]

\* import of server.py and mcp.run(): parse the configuration, then build the
\* pool and register the tools of the configured dialect
Startup ==
    /\ phase = "init"
    /\ LET parsed == from_env_arguments(argv, environ)
       IN  IF parsed.ok
           THEN /\ phase' = "serving"
                /\ config' = parsed.config
                /\ pools' = ModulePools(parsed.config)
                /\ tools' = ModuleTools(parsed.config)
           ELSE /\ phase' = "fatal"
                /\ UNCHANGED <<config, pools, tools>>
    /\ UNCHANGED <<argv, environ, checkedOut, last>>

----------------------------------------------------------------------------
(* Start-up alone, over every combination of flag and environment *)

Absent == <<>>
Given(s) == <<s>>

CliChoices(f) ==
    CASE f = "host" -> {Absent, Given(<<"h", "1">>)}
      [] f = "port" -> {Absent, Given(<<"7", "0", "0", "0">>)}
      [] f = "user" -> {Absent, Given(<<"u", "1">>)}
      [] f = "password" -> {Absent, Given(<<"p", "1">>)}
      [] f = "database" -> {Absent, Given(<<"d", "b">>)}
      [] f = "sql_dialect" -> {Absent, Given(T_tree), Given(<<"T", "R", "E", "E">>)}

EnvChoices(f) ==
    CASE f = "host" -> {Absent, Given(<<"h", "2">>)}
      [] f = "port" -> {Absent, Given(<<" ", "8", "0", "8", "0">>), Given(<<"a", "b", "c">>),
                       Given(<<"U00A0", "U0663", "_", "0">>), Given(<<"1", "_">>)}
      [] f = "user" -> {Absent, Given(<<"u", "2">>)}
      [] f = "password" -> {Absent, Given(<<"p", "2">>)}
      [] f = "database" -> {Absent, Given(<<>>)}
      [] f = "sql_dialect" -> {Absent, Given(T_tree)}

InitRest ==
    /\ phase = "init"
    /\ config = NoConfig
    /\ pools = {}
    /\ tools = {}
    /\ checkedOut = {}
    /\ last = NoCall

\* sys.argv and os.environ as the six options see them
Options(h, p, u, pw, d, s, name) ==
    [k \in {name[f] : f \in Fields} |->
        CASE k = name["host"] -> h
          [] k = name["port"] -> p
          [] k = name["user"] -> u
          [] k = name["password"] -> pw
          [] k = name["database"] -> d
          [] k = name["sql_dialect"] -> s]

FlagNames == [f \in Fields |-> FlagOf(f)]
EnvVarNames == [f \in Fields |-> EnvOf(f)]

InitConfig ==
    /\ \E h \in CliChoices("host"), p \in CliChoices("port"),
          u \in CliChoices("user"), pw \in CliChoices("password"),
          d \in CliChoices("database"), s \in CliChoices("sql_dialect") :
            argv = Options(h, p, u, pw, d, s, FlagNames)
    /\ \E h \in EnvChoices("host"), p \in EnvChoices("port"),
          u \in EnvChoices("user"), pw \in EnvChoices("password"),
          d \in EnvChoices("database"), s \in EnvChoices("sql_dialect") :
            environ = Options(h, p, u, pw, d, s, EnvVarNames)
    /\ InitRest

NextConfig == Startup

SpecConfig == InitConfig /\ [][NextConfig]_vars

----------------------------------------------------------------------------
(* What a tool is called with and what the database answers *)

Q_select == <<" ", " ", "s", "e", "l", "e", "c", "t", " ", "s", " ", "f", "r", "o", "m", " ", "r", "o", "o", "t", ".", "a">>
Q_show_devices == <<"S", "H", "O", "W", " ", "D", "E", "V", "I", "C", "E", "S">>
Q_count_nodes == <<"C", "o", "u", "n", "t", " ", "N", "o", "d", "e", "s", " ", "r", "o", "o", "t", "\n">>
Q_describe == <<"d", "e", "s", "c", "r", "i", "b", "e", " ", "t">>
Q_drop == <<"d", "r", "o", "p", " ", "t">>
Q_inner == <<"x", " ", "S", "E", "L", "E", "C", "T">>
\* "select 1" written with a long s (U+017F), whose upper() is S
Q_long_s == <<"U017F", "e", "l", "e", "c", "t", " ", "1">>
\* "show devices" between a vertical tab and a no-break space
Q_vtab == <<"U000B", "s", "h", "o", "w", " ", "d", "e", "v", "i", "c", "e", "s", "U00A0">>

\* the query_sql argument
Queries ==
    {Q_select, Q_show_devices, Q_count_nodes, Q_describe, Q_drop, Q_inner,
     Q_long_s, Q_vtab}

\* the table_name argument
TableNames == {<<"s", "e", "n", "s", "o", "r", "s">>, <<"t", " ", "x">>}

T_status == <<"s", "t", "a", "t", "u", "s">>

\* get_column_names() of a result
ColumnChoices == {<<T_Time, T_status>>, <<T_status>>}

\* a RowRecord: get_timestamp() and get_fields().  The timestamp is the
\* driver's value, a number of milliseconds or a text
RowVals ==
    {[ts |-> PyStr(<<"1", "0", "0">>), fields |-> <<PyInt(1)>>],
     [ts |-> PyStr(<<"2", "0", "0">>), fields |-> <<PyInt(0)>>],
     [ts |-> PyInt(300), fields |-> <<PyStr(<<"t", "1">>)>>]}

RowSeqs == UNION {[1..n -> RowVals] : n \in 0..MaxRows}

ExecuteRaises == [raises |-> TRUE, columns |-> <<>>, rows |-> <<>>, breaks |-> FALSE]

\* what execute_query_statement does: it raises, or returns a SessionDataSet
\* that yields its rows and then either ends or raises (breaks)
Responses ==
    {ExecuteRaises} \cup
    {[raises |-> FALSE, columns |-> c, rows |-> r, breaks |-> b] :
        c \in ColumnChoices, r \in RowSeqs, b \in BOOLEAN}

----------------------------------------------------------------------------
(* server.py: row formatting *)

StrAll(row) == [i \in 1..Len(row) |-> Str(row[i])]

Range(f) == {f[i] : i \in DOMAIN f}

\* the while loop of the tree prepare_res from row i on: result is the list
\* of row lines, log the calls made on the cursor
RECURSIVE tree_rows(_, _, _, _)
tree_rows(res, i, result, log) ==
    IF i > Len(res.rows)
    THEN [outcome |-> IF res.breaks THEN "DriverError" ELSE "ok",
          result |-> result, log |-> Append(log, "has_next")]
    ELSE LET record == res.rows[i]
             fetched == log \o <<"has_next", "next">>
         IN  IF res.columns[1] = T_Time
             THEN IF record.ts.t # "str"
                  THEN [outcome |-> "TypeError", result |-> result,
                        log |-> fetched]
                  ELSE tree_rows(res, i + 1,
                         Append(result, record.ts.s \o <<",">>
                                        \o Join(StrAll(record.fields), <<",">>)),
                         fetched)
             ELSE tree_rows(res, i + 1,
                    Append(result, Join(StrAll(record.fields), <<",">>)),
                    fetched)

\* prepare_res of the tree dialect
prepare_res_tree(res) ==
    LET loop == tree_rows(res, 1, <<>>, <<"get_column_names">>)
    IN  IF loop.outcome # "ok"
        THEN [outcome |-> loop.outcome, log |-> loop.log, text |-> <<>>]
        ELSE [outcome |-> "ok", log |-> Append(loop.log, "close"),
              text |-> Join(<<Join(res.columns, <<",">>)>> \o loop.result,
                            <<"\n">>)]

\* the while loop of the table prepare_res
RECURSIVE table_rows(_, _, _, _)
table_rows(res, i, result, log) ==
    IF i > Len(res.rows)
    THEN [outcome |-> IF res.breaks THEN "DriverError" ELSE "ok",
          result |-> result, log |-> Append(log, "has_next")]
    ELSE table_rows(res, i + 1,
           Append(result, Join(StrAll(res.rows[i].fields), <<",">>)),
           log \o <<"has_next", "next">>)

\* prepare_res of the table dialect
prepare_res_table(res) ==
    LET loop == table_rows(res, 1, <<>>, <<"get_column_names">>)
    IN  IF loop.outcome # "ok"
        THEN [outcome |-> loop.outcome, log |-> loop.log, text |-> <<>>]
        ELSE [outcome |-> "ok", log |-> Append(loop.log, "close"),
              text |-> Join(<<Join(res.columns, <<",">>)>> \o loop.result,
                            <<"\n">>)]

\* the while loop of list_tables
RECURSIVE list_rows(_, _, _, _)
list_rows(res, i, result, log) ==
    IF i > Len(res.rows)
    THEN [outcome |-> IF res.breaks THEN "DriverError" ELSE "ok",
          result |-> result, log |-> Append(log, "has_next")]
    ELSE list_rows(res, i + 1, Append(result, Str(res.rows[i].fields[1])),
                   log \o <<"has_next", "next">>)

----------------------------------------------------------------------------
(* server.py: the tool handlers.  Each is the whole handler as a function   *)
(* of its argument, of what the database answers (res) and of the session   *)
(* the pool hands out (sid, 0 when the pool has none left): the calls it    *)
(* makes in order (log), how it ends (outcome), the text it returns and the *)
(* statement it executed (sql).                                             *)

Ended(outcome, log, text, sql) ==
    [outcome |-> outcome, log |-> log, text |-> text, sql |-> sql]

MetadataPrefixes ==
    {T_SHOW_DATABASES, T_SHOW_TIMESERIES, T_SHOW_CHILD_PATHS, T_SHOW_CHILD_NODES,
     T_SHOW_DEVICES, T_COUNT_TIMESERIES, T_COUNT_NODES, T_COUNT_DEVICES}
SelectPrefixes == {T_SELECT}
ReadPrefixes == {T_SELECT, T_DESCRIBE, T_SHOW}

\* stmt = query_sql.strip().upper(); stmt.startswith(p) for one of prefixes
Allowed(query_sql, prefixes) ==
    \E p \in prefixes : StartsWith(Upper(Strip(query_sql)), p)

metadata_query_run(query_sql, res, sid) ==
    IF sid = 0 THEN Ended("PoolError", <<"get_session">>, <<>>, <<>>)
    ELSE IF Allowed(query_sql, MetadataPrefixes)
    THEN IF res.raises
         THEN Ended("DriverError", <<"get_session", "execute", "close">>,
                    <<>>, <<query_sql>>)
         ELSE LET r == prepare_res_tree(res)
              IN  IF r.outcome = "ok"
                  THEN Ended("ok", <<"get_session", "execute">> \o r.log,
                             r.text, <<query_sql>>)
                  ELSE Ended(r.outcome,
                             <<"get_session", "execute">> \o r.log \o <<"close">>,
                             <<>>, <<query_sql>>)
    ELSE Ended("ValueError", <<"get_session", "close">>, <<>>, <<>>)

select_query_run(query_sql, res, sid) ==
    IF sid = 0 THEN Ended("PoolError", <<"get_session">>, <<>>, <<>>)
    ELSE IF res.raises
    THEN Ended("DriverError", <<"get_session", "execute">>, <<>>, <<query_sql>>)
    ELSE IF Allowed(query_sql, SelectPrefixes)
    THEN LET r == prepare_res_tree(res)
         IN  Ended(r.outcome, <<"get_session", "execute">> \o r.log, r.text,
                   <<query_sql>>)
    ELSE Ended("ValueError", <<"get_session", "execute">>, <<>>, <<query_sql>>)

\* read_query with the session closed when execution raises
read_query_run_closing(query_sql, res, sid) ==
    IF sid = 0 THEN Ended("PoolError", <<"get_session">>, <<>>, <<>>)
    ELSE IF res.raises
    THEN Ended("DriverError", <<"get_session", "execute", "close">>, <<>>,
               <<query_sql>>)
    ELSE IF Allowed(query_sql, ReadPrefixes)
    THEN LET r == prepare_res_table(res)
         IN  Ended(r.outcome, <<"get_session", "execute">> \o r.log, r.text,
                   <<query_sql>>)
    ELSE Ended("ValueError", <<"get_session", "execute">>, <<>>, <<query_sql>>)

read_query_run(query_sql, res, sid) ==
    IF sid = 0 THEN Ended("PoolError", <<"get_session">>, <<>>, <<>>)
    ELSE IF res.raises
    THEN Ended("DriverError", <<"get_session", "execute">>, <<>>, <<query_sql>>)
    ELSE IF Allowed(query_sql, ReadPrefixes)
    THEN LET r == prepare_res_table(res)
         IN  Ended(r.outcome, <<"get_session", "execute">> \o r.log, r.text,
                   <<query_sql>>)
    ELSE Ended("ValueError", <<"get_session", "execute">>, <<>>, <<query_sql>>)

\* database is db_config["database"]
list_tables_run(database, res, sid) ==
    IF sid = 0 THEN Ended("PoolError", <<"get_session">>, <<>>, <<>>)
    ELSE IF res.raises
    THEN Ended("DriverError", <<"get_session", "execute">>, <<>>, <<T_SHOW_TABLES>>)
    ELSE LET loop == list_rows(res, 1, <<T_Tables_in_ \o database>>, <<>>)
         IN  IF loop.outcome # "ok"
             THEN Ended(loop.outcome, <<"get_session", "execute">> \o loop.log,
                        <<>>, <<T_SHOW_TABLES>>)
             ELSE Ended("ok",
                        <<"get_session", "execute">> \o loop.log \o <<"close">>,
                        Join(loop.result, <<"\n">>), <<T_SHOW_TABLES>>)

describe_table_run(table_name, res, sid) ==
    IF sid = 0 THEN Ended("PoolError", <<"get_session">>, <<>>, <<>>)
    ELSE IF res.raises
    THEN Ended("DriverError", <<"get_session", "execute">>, <<>>,
               <<T_DESC_ \o table_name>>)
    ELSE LET r == prepare_res_table(res)
         IN  Ended(r.outcome, <<"get_session", "execute">> \o r.log, r.text,
                   <<T_DESC_ \o table_name>>)

----------------------------------------------------------------------------
(* The session pool and the tool invocations *)

\* the one pool of the process
session_pool == CHOOSE p \in pools : TRUE

\* session_pool.get_session(): the lowest session not handed out, 0 when all
\* of them are (the call then raises after the pool's wait)
get_session(out) ==
    IF \E i \in 1..session_pool.size : i \notin out
    THEN CHOOSE i \in 1..session_pool.size :
             i \notin out /\ \A j \in 1..(i - 1) : j \in out
    ELSE 0

\* one invocation of a tool, run to its end: the handlers hold no await, so
\* the event loop runs each from its first line to its return or raise.
\* session.close() gives the session back to the pool
Invoke(op, arg, res, sid, run) ==
    /\ last' = [op |-> op, arg |-> arg, res |-> res, sid |-> sid,
                before |-> checkedOut, outcome |-> run.outcome,
                log |-> run.log, text |-> run.text, sql |-> run.sql]
    /\ checkedOut' = IF sid # 0 /\ "close" \notin Range(run.log)
                     THEN checkedOut \cup {sid}
                     ELSE checkedOut
    /\ UNCHANGED <<argv, environ, phase, config, pools, tools>>

Callable(tool) == phase = "serving" /\ tool \in tools /\ last = NoCall

metadata_query ==
    /\ Callable("metadata_query")
    /\ \E query_sql \in Queries, res \in Responses :
         LET sid == get_session(checkedOut)
         IN  Invoke("metadata_query", query_sql, res, sid,
                    metadata_query_run(query_sql, res, sid))

select_query ==
    /\ Callable("select_query")
    /\ \E query_sql \in Queries, res \in Responses :
         LET sid == get_session(checkedOut)
         IN  Invoke("select_query", query_sql, res, sid,
                    select_query_run(query_sql, res, sid))

read_query ==
    /\ Callable("read_query")
    /\ get_session(checkedOut) # 0
    /\ \E query_sql \in Queries, res \in Responses :
         LET sid == get_session(checkedOut)
         IN  Invoke("read_query", query_sql, res, sid,
                    read_query_run(query_sql, res, sid))

list_tables ==
    /\ Callable("list_tables")
    /\ get_session(checkedOut) # 0
    /\ \E res \in Responses :
         LET sid == get_session(checkedOut)
         IN  Invoke("list_tables", <<>>, res, sid,
                    list_tables_run(config["database"].s, res, sid))

describe_table ==
    /\ Callable("describe_table")
    /\ get_session(checkedOut) # 0
    /\ \E table_name \in TableNames, res \in Responses :
         LET sid == get_session(checkedOut)
         IN  Invoke("describe_table", table_name, res, sid,
                    describe_table_run(table_name, res, sid))

\* mcp.run(): the host returns the handler's result or error to the caller
Respond ==
    /\ phase = "serving"
    /\ last # NoCall
    /\ last' = NoCall
    /\ UNCHANGED <<argv, environ, phase, config, pools, tools, checkedOut>>

Init ==
    /\ \E s \in CliChoices("sql_dialect") :
         argv = Options(Absent, Absent, Absent, Absent, Absent, s, FlagNames)
    /\ \E d \in EnvChoices("database") :
         environ = Options(Absent, Absent, Absent, Absent, d, Absent, EnvVarNames)
    /\ InitRest

Next ==
    \/ Startup
    \/ metadata_query
    \/ select_query
    \/ read_query
    \/ list_tables
    \/ describe_table
    \/ Respond

Spec == Init /\ [][Next]_vars

----------------------------------------------------------------------------
(* Properties *)

Count(log, event) == Cardinality({i \in DOMAIN log : log[i] = event})

Returning == last # NoCall

ValidatingTools == {"metadata_query", "select_query", "read_query"}

PrefixesOf(tool) ==
    CASE tool = "metadata_query" -> MetadataPrefixes
      [] tool = "select_query" -> SelectPrefixes
      [] tool = "read_query" -> ReadPrefixes

Rejected ==
    /\ Returning
    /\ last.op \in ValidatingTools
    /\ ~Allowed(last.arg, PrefixesOf(last.op))

\* C1: a validating tool called with a query that starts with none of its
\* allowed prefixes fails with the validation error and never calls
\* execute_query_statement.
C1_RejectedQueryNotExecuted ==
    Rejected => (last.outcome = "ValueError" /\ "execute" \notin Range(last.log))

\* C2: a validating tool called with a query that starts with none of its
\* allowed prefixes makes no call to session_pool.get_session().
C2_RejectedQueryAcquiresNothing ==
    Rejected => "get_session" \notin Range(last.log)

\* C3: in tree mode every invocation that acquired a session closes it
\* exactly once, however the invocation ends.
C3_TreeClosesExactlyOnce ==
    (Returning /\ last.op \in TreeTools /\ last.sid # 0)
        => Count(last.log, "close") = 1

\* C4: after an invocation failed with the validation error the sessions
\* checked out of the pool are those checked out before it started.
C4_ValidationErrorLeaksNothing ==
    (Returning /\ last.outcome = "ValueError") => checkedOut = last.before

\* C5: in table mode, when execute_query_statement raises, the error reaches
\* the caller, close() is not called and the session stays checked out; a
\* table tool closes its session only on completion: once, as its last call,
\* after every row of the cursor was fetched, and then it returns its text.
C5_TableClosesOnlyOnCompletion ==
    (Returning /\ last.op \in TableTools) =>
        /\ last.res.raises =>
             /\ last.outcome = "DriverError"
             /\ "close" \notin Range(last.log)
             /\ last.sid \in checkedOut
        /\ "close" \in Range(last.log) =>
             /\ last.outcome = "ok"
             /\ Count(last.log, "close") = 1
             /\ last.log[Len(last.log)] = "close"
             /\ Count(last.log, "next") = Len(last.res.rows)
             /\ ~last.res.breaks

C5_Witness ==
    /\ Returning
    /\ last.op = "read_query"
    /\ last.res.raises
    /\ last.sid \notin last.before
    /\ last.sid \in checkedOut

\* C6: whatever the dialect option resolves to, start-up constructs exactly
\* one pool and registers exactly the tools of that pool's dialect.
C6_OnePoolAndItsTools ==
    phase = "serving" =>
        /\ Cardinality(pools) = 1
        /\ \A p \in pools :
             tools = (IF p.kind = "tree" THEN TreeTools ELSE TableTools)

HeaderText(columns) ==
    CASE columns = <<T_Time, T_status>> ->
           <<"T", "i", "m", "e", ",", "s", "t", "a", "t", "u", "s">>
      [] columns = <<T_status>> -> <<"s", "t", "a", "t", "u", "s">>

\* C7: a successful query whose cursor yields no row returns exactly the
\* header line (the comma-joined column names, or Tables_in_<database> for
\* list_tables), with no newline in it.
C7_EmptyResultIsHeaderOnly ==
    (Returning /\ last.outcome = "ok" /\ last.res.rows = <<>>) =>
        /\ last.text = (IF last.op = "list_tables"
                        THEN T_Tables_in_ \o config["database"].s
                        ELSE HeaderText(last.res.columns))
        /\ "\n" \notin Range(last.text)

C7_Witness ==
    /\ Returning
    /\ last.op = "select_query"
    /\ last.outcome = "ok"
    /\ last.res.rows = <<>>
    /\ last.text = <<"T", "i", "m", "e", ",", "s", "t", "a", "t", "u", "s">>

\* the row line the formatting is to produce
RowLine(columns, record) ==
    IF columns[1] = T_Time
    THEN Str(record.ts) \o <<",">> \o Join(StrAll(record.fields), <<",">>)
    ELSE Join(StrAll(record.fields), <<",">>)

\* C8: in tree mode prepare_res, given a cursor that yields all its rows,
\* returns the header line and one line per row in cursor order, the line of
\* a row being its timestamp, a comma and its comma-joined fields when the
\* first column is Time, and closes the session last.
C8_TreeRowsFormatted ==
    (/\ Returning
     /\ last.op \in TreeTools
     /\ last.sid # 0
     /\ Allowed(last.arg, PrefixesOf(last.op))
     /\ ~last.res.raises
     /\ ~last.res.breaks) =>
        /\ last.outcome = "ok"
        /\ last.text = Join(<<HeaderText(last.res.columns)>>
                            \o [i \in 1..Len(last.res.rows) |->
                                  RowLine(last.res.columns, last.res.rows[i])],
                            <<"\n">>)
        /\ last.log[Len(last.log)] = "close"

\* C10: in tree mode, whenever no invocation is being answered, no session
\* is checked out of the pool.
C10_IdleTreePoolIsFull ==
    (phase = "serving" /\ tools = TreeTools /\ ~Returning) => checkedOut = {}

----------------------------------------------------------------------------
(* Properties of start-up, checked under SpecConfig *)

HardDefault(f) ==
    CASE f = "host" -> PyStr(<<"1", "2", "7", ".", "0", ".", "0", ".", "1">>)
      [] f = "port" -> PyInt(6667)
      [] f = "user" -> PyStr(<<"r", "o", "o", "t">>)
      [] f = "password" -> PyStr(<<"r", "o", "o", "t">>)
      [] f = "database" -> PyStr(<<"t", "e", "s", "t">>)
      [] f = "sql_dialect" -> PyStr(<<"t", "a", "b", "l", "e">>)

\* the source that decides field f: the flag, else the variable, else neither
ChosenText(f) ==
    IF argv[FlagOf(f)] # <<>> THEN argv[FlagOf(f)]
    ELSE environ[EnvOf(f)]

PortNumber(text) ==
    CASE text = <<"7", "0", "0", "0">> -> <<7000>>
      [] text = <<" ", "8", "0", "8", "0">> -> <<8080>>
      [] text = <<"U00A0", "U0663", "_", "0">> -> <<30>>
      [] OTHER -> <<>>

Resolved(f) ==
    IF ChosenText(f) = <<>> THEN HardDefault(f)
    ELSE IF f = "port" THEN PyInt(PortNumber(ChosenText(f)[1])[1])
    ELSE PyStr(ChosenText(f)[1])

\* C9: each of the six fields is the flag's value when the flag is given,
\* else the environment variable's value when it is set, else the hard-coded
\* default, whatever the sources of the other fields; start-up fails only
\* when the source that decides the port holds no integer.
C9_FlagThenEnvThenDefault ==
    /\ phase = "serving" => \A f \in Fields : config[f] = Resolved(f)
    /\ phase = "fatal" =>
         /\ ChosenText("port") # <<>>
         /\ PortNumber(ChosenText("port")[1]) = <<>>
    /\ (phase # "init" /\ ChosenText("port") # <<>>
          /\ PortNumber(ChosenText("port")[1]) = <<>>) => phase = "fatal"

C9_Witness ==
    /\ phase = "serving"
    /\ argv["--host"] # <<>> /\ environ["IOTDB_HOST"] # <<>>
    /\ config["host"] = PyStr(<<"h", "1">>)
    /\ argv["--port"] = <<>> /\ config["port"] = PyInt(8080)
    /\ argv["--user"] = <<>> /\ environ["IOTDB_USER"] = <<>>
    /\ config["user"] = PyStr(<<"r", "o", "o", "t">>)
    /\ argv["--sql-dialect"] = <<>> /\ config["sql_dialect"] = PyStr(<<"t", "r", "e", "e">>)

====
